---- MODULE Spec2Model ----
(***************************************************************************)
(* Phase pipeline of kids-book-studio: the admin story store               *)
(* (story-template: project.json, phaseN.json, story.json, prop-bible.json,*)
(* prompts.json, stories-index.json) and the admin routes that drive it    *)
(* (create / delete a story, generate a phase, approve / reject a phase,   *)
(* convert to template files).                                             *)
(*                                                                         *)
(* Abstractions: timestamps (createdAt, updatedAt, generatedAt,            *)
(* approvedAt) and the display name of a story are not modelled; the       *)
(* Bearer-token check of the routes is taken as passed.  A phase output is *)
(* an opaque document identified by a number; Null is JavaScript null.     *)
(* An optional value is a sequence of length 0 (absent / undefined) or 1.  *)
(***************************************************************************)
EXTENDS Integers, Sequences, FiniteSets, TLC

(***************************************************************************)
(* Bounds of the model.                                                    *)
(***************************************************************************)
\* number of HTTP requests the admin client sends in one run
MaxRequests == 2
\* distinct documents the content provider can return (1..MaxOutput)
MaxOutput == 2
\* pages of the hardcoded legacy story, and pages a client sends panels for
MaxPages == 2
\* distinctive features of a character profile (0..MaxFeatures)
MaxFeatures == 3
\* prop keys of a prop bible, and props a page refers to (0..MaxProps)
MaxProps == 2
\* tokens of a character-staging text (0..MaxTokens)
MaxTokens == 4
\* pieces of a text with name placeholders (0..MaxPieces)
MaxPieces == 3

(***************************************************************************)
(* Optional values.                                                        *)
(***************************************************************************)
None == << >>
Some(x) == << x >>
IsSome(o) == Len(o) = 1
Get(o) == o[1]

(***************************************************************************)
(* Strings are sequences of one-character strings, so that trim() and the  *)
(* slug of a story name are computed, not assumed.                         *)
(***************************************************************************)
IsSpace(c) == c = " "

RECURSIVE TrimStart(_)
TrimStart(str) ==
    IF str # << >> /\ IsSpace(Head(str)) THEN TrimStart(Tail(str)) ELSE str

RECURSIVE TrimEnd(_)
TrimEnd(str) ==
    IF str # << >> /\ IsSpace(str[Len(str)])
    THEN TrimEnd(SubSeq(str, 1, Len(str) - 1))
    ELSE str

\* String.prototype.trim
Trim(str) == TrimEnd(TrimStart(str))

UpperCaseLetters ==
    << "A", "B", "C", "D", "E", "F", "G", "H", "I", "J", "K", "L", "M",
       "N", "O", "P", "Q", "R", "S", "T", "U", "V", "W", "X", "Y", "Z" >>
LowerCaseLetters ==
    << "a", "b", "c", "d", "e", "f", "g", "h", "i", "j", "k", "l", "m",
       "n", "o", "p", "q", "r", "s", "t", "u", "v", "w", "x", "y", "z" >>
Digits == { "0", "1", "2", "3", "4", "5", "6", "7", "8", "9" }

\* String.prototype.toLowerCase, one character
ToLowerCase(c) ==
    IF \E i \in 1..Len(UpperCaseLetters) : UpperCaseLetters[i] = c
    THEN LowerCaseLetters[CHOOSE i \in 1..Len(UpperCaseLetters) : UpperCaseLetters[i] = c]
    ELSE c

\* the character class [a-z0-9]
IsSlugChar(c) ==
    \/ \E i \in 1..Len(LowerCaseLetters) : LowerCaseLetters[i] = c
    \/ c \in Digits

\* .replace(/[^a-z0-9]+/g, "-"): every maximal run of other characters
\* becomes one "-"
RECURSIVE ReplaceRuns(_, _)
ReplaceRuns(str, inRun) ==
    IF str = << >> THEN << >>
    ELSE IF IsSlugChar(Head(str))
         THEN << Head(str) >> \o ReplaceRuns(Tail(str), FALSE)
         ELSE IF inRun THEN ReplaceRuns(Tail(str), TRUE)
              ELSE << "-" >> \o ReplaceRuns(Tail(str), TRUE)

\* .replace(/^-|-$/g, ""): one leading and one trailing "-" are removed
StripDashes(str) ==
    LET a == IF str # << >> /\ Head(str) = "-" THEN Tail(str) ELSE str
    IN  IF a # << >> /\ a[Len(a)] = "-" THEN SubSeq(a, 1, Len(a) - 1) ELSE a

\* createStoryProject: the id of a story is the slug of its name
Slug(name) ==
    StripDashes(ReplaceRuns([i \in 1..Len(name) |-> ToLowerCase(name[i])], FALSE))

(***************************************************************************)
(* Phases.                                                                 *)
(***************************************************************************)
PHASE_ORDER == << 0, 1, 2, 4, 5 >>
Phases == { PHASE_ORDER[i] : i \in 1..Len(PHASE_ORDER) }

IndexOf(seq, x) ==
    IF \E i \in 1..Len(seq) : seq[i] = x
    THEN CHOOSE i \in 1..Len(seq) : seq[i] = x /\ \A j \in 1..(i - 1) : seq[j] # x
    ELSE 0

nextPhase(current) ==
    LET idx == IndexOf(PHASE_ORDER, current)
    IN  IF idx < Len(PHASE_ORDER) THEN PHASE_ORDER[idx + 1] ELSE current

Null == 0
Outputs == 1..MaxOutput

createEmptyPhaseState == [status |-> "pending", output |-> Null, revisionNotes |-> None]

NewProject(id) ==
    [id |-> id,
     phases |-> [n \in Phases |-> createEmptyPhaseState],
     currentPhase |-> 0,
     templateReady |-> FALSE]

(***************************************************************************)
(* Inputs of the requests.                                                 *)
(***************************************************************************)
\* a name whose slug is the id of the legacy story
LegacyName ==
    << "A", "d", "v", "e", "n", "t", "u", "r", "e", " ", "S", "t", "o", "r", "y" >>
\* names typed into the "new story" form
StoryNames == { << "A" >>, << "b" >>, LegacyName }
\* story ids a request can address
StoryIds == { Slug(name) : name \in StoryNames }
\* the phaseNum path segment after parseInt; 3 is the gap of the pipeline
PhaseNums == { 0, 1, 2, 3, 4, 5 }
\* revisionNotes of a request body: missing, "", " " or "a"
NoteTexts == { << >>, << " " >>, << "a" >> }
NoteValues == { None } \cup { Some(t) : t \in NoteTexts }
\* the body of a generate request: None when request.json() throws
\* (the editors send revisionNotes || undefined)
GenerateNotes == { None, Some(<< "a" >>) }
GenerateBodies == { None } \cup { Some([revisionNotes |-> v]) : v \in GenerateNotes }
\* the body of a PATCH request: None when request.json() throws; the admin
\* page sends { action: "approve" } and { action: "reject", revisionNotes }
PatchBodies ==
    { None, Some([action |-> "approve", revisionNotes |-> None]),
            Some([action |-> "other", revisionNotes |-> None]) }
    \cup { Some([action |-> "reject", revisionNotes |-> v]) : v \in NoteValues }

\* JavaScript truthiness of an optional string: undefined and "" are falsy
Truthy(o) == IsSome(o) /\ Get(o) # << >>

(***************************************************************************)
(* The store: files under src/templates.                                   *)
(***************************************************************************)
VARIABLES
    projectFile,    \* [storyId -> optional project.json]
    phaseFile,      \* [storyId -> [phase -> optional phaseN.json]]
    storyJson,      \* [storyId -> optional story.json]
    propBibleJson,  \* [storyId -> optional prop-bible.json]
    promptsJson,    \* [storyId -> optional prompts.json]
    indexFile,      \* optional stories-index.json: a sequence of entries
    calls,          \* POST handlers awaiting the content provider
    requests,       \* requests sent so far
    last,           \* the request answered last and its HTTP status
    book,           \* the POST /api/generate request (generate book) in progress
    calc,           \* a library function applied to an input: its name, input, result
    editor          \* the prop bible held by the PropBibleEditor component, if open

vars == << projectFile, phaseFile, storyJson, propBibleJson, promptsJson,
           indexFile, calls, requests, last, book, calc, editor >>

LegacyId == << "a", "d", "v", "e", "n", "t", "u", "r", "e", "-", "s", "t", "o", "r", "y" >>

LegacyEntry ==
    [id |-> LegacyId, currentPhase |-> 5, templateReady |-> TRUE, isLegacy |-> TRUE]

\* loadStoriesIndex: the default index when the file does not exist
loadStoriesIndex(file) == IF IsSome(file) THEN Get(file) ELSE << LegacyEntry >>

\* Array.prototype.findIndex on the index entries, 1-based, 0 when not found
FindEntry(stories, id) ==
    IF \E i \in 1..Len(stories) : stories[i].id = id
    THEN CHOOSE i \in 1..Len(stories) :
            stories[i].id = id /\ \A j \in 1..(i - 1) : stories[j].id # id
    ELSE 0

\* addStoryToIndex: the new content of stories-index.json
addStoryToIndex(file, entry) ==
    LET stories == loadStoriesIndex(file)
        existing == FindEntry(stories, entry.id)
    IN  IF existing > 0 THEN Some([stories EXCEPT ![existing] = entry])
        ELSE Some(Append(stories, entry))

\* removeStoryFromIndex: the new content of stories-index.json
removeStoryFromIndex(file, storyId) ==
    Some(SelectSeq(loadStoriesIndex(file), LAMBDA e : e.id # storyId))

\* a save that writes an index holding the entry of the project alone
IndexRewritten(file, project) ==
    Some(<< [id |-> project.id, currentPhase |-> project.currentPhase,
             templateReady |-> project.templateReady, isLegacy |-> FALSE] >>)

\* a save that leaves the index as it is
IndexNotRefreshed(file, project) == file

\* saveStoryProject, index part: the entry of the project is refreshed and
\* the index written only when the entry exists
IndexAfterSave(file, project) ==
    LET stories == loadStoriesIndex(file)
        i == FindEntry(stories, project.id)
    IN  IF i > 0
        THEN Some([stories EXCEPT ![i] =
                     [@ EXCEPT !.currentPhase = project.currentPhase,
                               !.templateReady = project.templateReady]])
        ELSE file

\* saveStoryProject: project.json is written, then the index entry updated
saveStoryProject(project) ==
    /\ projectFile' = [projectFile EXCEPT ![project.id] = Some(project)]
    /\ indexFile' = IndexAfterSave(indexFile, project)

\* loadStoryProject
loadStoryProject(storyId) == projectFile[storyId]

NoFiles == [s \in StoryIds |-> None]

\* the answer to a request: the operation, the story and phase it addressed
\* (phase -1 when it addresses a story), the HTTP status (0 while the
\* handler awaits the provider)
Response(op, story, phase, code) ==
    [op |-> op, story |-> story, phase |-> phase, code |-> code]

\* no generate-book request has been received
BookIdle ==
    [pc |-> "idle", storyId |-> << >>, childName |-> "", storyboard |-> None,
     panels |-> << >>, panelMap |-> << >>, loop |-> "none", produced |-> << >>,
     failedAt |-> 0, response |-> None]

\* no library function is being applied
CalcIdle == [op |-> "none", in |-> << >>, out |-> << >>]

\* the store of a fresh checkout: no story project, no index file
EmptyStore ==
    /\ projectFile = NoFiles
    /\ phaseFile = [s \in StoryIds |-> [n \in Phases |-> None]]
    /\ indexFile = None

\* The store after story SeedStory was created, its first k phases were
\* generated (with no revision notes) and approved one after the other and,
\* when inReview, the phase after them was generated and awaits its review.
SeedStory == Slug(<< "A" >>)
SeedOutput == CHOOSE o \in Outputs : \A p \in Outputs : o <= p

SeedPhase(n, k, inReview) ==
    IF IndexOf(PHASE_ORDER, n) <= k
    THEN [status |-> "approved", output |-> SeedOutput, revisionNotes |-> None]
    ELSE IF inReview /\ IndexOf(PHASE_ORDER, n) = k + 1
    THEN [status |-> "review", output |-> SeedOutput, revisionNotes |-> None]
    ELSE createEmptyPhaseState

SeedProject(k, inReview) ==
    [id |-> SeedStory,
     phases |-> [n \in Phases |-> SeedPhase(n, k, inReview)],
     currentPhase |-> IF k = 0 THEN 0 ELSE nextPhase(PHASE_ORDER[k]),
     templateReady |-> FALSE]

SeededStore(k, inReview) ==
    /\ projectFile = [NoFiles EXCEPT ![SeedStory] = Some(SeedProject(k, inReview))]
    /\ phaseFile = [s \in StoryIds |-> [n \in Phases |->
                      IF s = SeedStory /\ SeedPhase(n, k, inReview).output # Null
                      THEN Some(SeedOutput) ELSE None]]
    /\ indexFile = Some(<< LegacyEntry,
                           [id |-> SeedStory,
                            currentPhase |-> SeedProject(k, inReview).currentPhase,
                            templateReady |-> FALSE, isLegacy |-> FALSE] >>)

\* The server starts over the store it finds: the empty one, or one in
\* which the pipeline of SeedStory has been run up to some phase.
Init ==
    /\ \/ EmptyStore
       \/ \E k \in 0..Len(PHASE_ORDER), inReview \in BOOLEAN :
             (inReview => k < Len(PHASE_ORDER)) /\ SeededStore(k, inReview)
    /\ storyJson = NoFiles
    /\ propBibleJson = NoFiles
    /\ promptsJson = NoFiles
    /\ calls = {}
    /\ requests = 0
    /\ last = Response("none", << >>, -1, 0)
    /\ book = BookIdle
    /\ calc = CalcIdle
    /\ editor = None

(***************************************************************************)
(* The content provider and parseJsonResponse.  A reply is either an       *)
(* exception of the provider or a text, a sequence of tokens: an opening   *)
(* fence with the json tag, a bare fence of three backquotes, a JSON        *)
(* document or other text.                                                 *)
(***************************************************************************)
FenceJson == [t |-> "fence-json", doc |-> Null]
Fence == [t |-> "fence", doc |-> Null]
Junk == [t |-> "text", doc |-> Null]
Json(k) == [t |-> "json", doc |-> k]

ProviderTexts ==
    { << >>, << Junk >> }
    \cup { << Json(k) >> : k \in Outputs }
    \cup { << FenceJson, Json(k), Fence >> : k \in Outputs }
    \cup { << Fence, Json(k), Fence >> : k \in Outputs }

ProviderReplies ==
    { [error |-> TRUE, content |-> << >>] }
    \cup { [error |-> FALSE, content |-> c] : c \in ProviderTexts }

\* parseJsonResponse: Some(document), or None when JSON.parse throws
parseJsonResponse(content) ==
    LET fenced == content # << >> /\ Head(content).t \in { "fence-json", "fence" }
        noOpen == SelectSeq(content, LAMBDA tok : tok.t # "fence-json")
        noClose == IF noOpen # << >> /\ noOpen[Len(noOpen)].t = "fence"
                   THEN SubSeq(noOpen, 1, Len(noOpen) - 1)
                   ELSE noOpen
        jsonStr == IF fenced THEN noClose ELSE content
    IN  IF Len(jsonStr) = 1 /\ jsonStr[1].t = "json"
        THEN Some(jsonStr[1].doc)
        ELSE None

\* generateStoryPhase followed by parseJsonResponse, as generatePhase0..5
\* do: Some(output), or None when the generator throws
generatePhase(reply) ==
    IF reply.error \/ reply.content = << >> THEN None
    ELSE parseJsonResponse(reply.content)

(***************************************************************************)
(* POST /api/admin/stories: createStoryProject.                            *)
(***************************************************************************)
createStoryProject(name) ==
    LET id == Slug(name)
        project == NewProject(id)
    IN  /\ projectFile' = [projectFile EXCEPT ![id] = Some(project)]
        /\ indexFile' = addStoryToIndex(IndexAfterSave(indexFile, project),
                            [id |-> id, currentPhase |-> 0,
                             templateReady |-> FALSE, isLegacy |-> FALSE])

CreateStory(name) ==
    /\ IF Trim(name) = << >>
       THEN /\ last' = Response("create", << >>, -1, 400)
            /\ UNCHANGED << projectFile, indexFile >>
       ELSE /\ createStoryProject(Trim(name))
            /\ last' = Response("create", Slug(Trim(name)), -1, 200)
    /\ UNCHANGED << phaseFile, storyJson, propBibleJson, promptsJson, calls >>

(***************************************************************************)
(* DELETE /api/admin/stories/[storyId]: deleteStoryProject.                *)
(***************************************************************************)
deleteStoryProject(storyId) ==
    /\ projectFile' = [projectFile EXCEPT ![storyId] = None]
    /\ phaseFile' = [phaseFile EXCEPT ![storyId] = [n \in Phases |-> None]]
    /\ storyJson' = [storyJson EXCEPT ![storyId] = None]
    /\ propBibleJson' = [propBibleJson EXCEPT ![storyId] = None]
    /\ promptsJson' = [promptsJson EXCEPT ![storyId] = None]
    /\ indexFile' = removeStoryFromIndex(indexFile, storyId)

DeleteStory(storyId) ==
    /\ IF storyId = LegacyId
       THEN /\ last' = Response("delete", storyId, -1, 400)
            /\ UNCHANGED << projectFile, phaseFile, storyJson, propBibleJson,
                            promptsJson, indexFile >>
       ELSE /\ deleteStoryProject(storyId)
            /\ last' = Response("delete", storyId, -1, 200)
    /\ UNCHANGED calls

(***************************************************************************)
(* POST /api/admin/stories/[storyId]/phase/[phaseNum]: generate a phase.   *)
(* The handler loads the project once, marks the phase generating and      *)
(* saves, checks the inputs of the phase, awaits the generator, and saves  *)
(* the whole loaded project again when the generator returns or throws.    *)
(***************************************************************************)
\* the phase outputs a generator reads (the switch of the handler)
GeneratorInputs(phaseNum) ==
    CASE phaseNum = 0 -> {}
      [] phaseNum = 1 -> { 0 }
      [] phaseNum = 2 -> { 0, 1 }
      [] phaseNum = 4 -> { 0, 2 }
      [] phaseNum = 5 -> { 2, 4 }

\* the guard of each case: every input of the generator is a truthy output
InputsPresent(project, phaseNum) ==
    \A d \in GeneratorInputs(phaseNum) : project.phases[d].output # Null

\* a catch block that forgets the prior output and always resets to pending
ResetStatusPending(project, phaseNum) ==
    [project EXCEPT !.phases[phaseNum].status = "pending"]

\* the catch block: the status is reset from the output of the loaded project
ResetStatus(project, phaseNum) ==
    [project EXCEPT !.phases[phaseNum].status =
        IF project.phases[phaseNum].output # Null THEN "review" ELSE "pending"]

\* a handler that discards the prior output when generation starts
MarkGeneratingDiscard(project, phaseNum) ==
    [project EXCEPT !.phases[phaseNum].status = "generating",
                    !.phases[phaseNum].output = Null]

\* lines 77-80: the phase is marked generating
MarkGenerating(project, phaseNum) ==
    [project EXCEPT !.phases[phaseNum].status = "generating"]

\* lines 134-139: the output is stored in the loaded project
StoreOutput(project, phaseNum, output, revisionNotes) ==
    [project EXCEPT !.phases[phaseNum] =
        [status |-> "review", output |-> output, revisionNotes |-> revisionNotes]]

\* the request up to the await of the generator
GenerateBegin(storyId, phaseNum, body) ==
    /\ UNCHANGED << phaseFile, storyJson, propBibleJson, promptsJson >>
    /\ IF phaseNum \notin Phases
       THEN /\ last' = Response("generate", storyId, phaseNum, 400)
            /\ UNCHANGED << projectFile, indexFile, calls >>
       ELSE IF ~IsSome(loadStoryProject(storyId))
       THEN /\ last' = Response("generate", storyId, phaseNum, 404)
            /\ UNCHANGED << projectFile, indexFile, calls >>
       ELSE LET project == Get(loadStoryProject(storyId))
                marked == MarkGenerating(project, phaseNum)
            IN  IF ~IsSome(body)
                THEN /\ saveStoryProject(ResetStatus(project, phaseNum))
                     /\ last' = Response("generate", storyId, phaseNum, 500)
                     /\ UNCHANGED calls
                ELSE /\ saveStoryProject(marked)
                     /\ IF InputsPresent(marked, phaseNum)
                        THEN /\ calls' = calls \cup
                                  { [story |-> storyId, phase |-> phaseNum,
                                     revisionNotes |-> Get(body).revisionNotes,
                                     project |-> marked] }
                             /\ last' = Response("generate", storyId, phaseNum, 0)
                        ELSE /\ last' = Response("generate", storyId, phaseNum, 400)
                             /\ UNCHANGED calls

\* the generator returned or threw: lines 131-142 or the catch block
GenerateComplete(call, reply) ==
    /\ call \in calls
    /\ calls' = calls \ { call }
    /\ UNCHANGED << storyJson, propBibleJson, promptsJson >>
    /\ LET output == generatePhase(reply)
       IN  IF IsSome(output)
           THEN /\ phaseFile' = [phaseFile EXCEPT ![call.story][call.phase] = output]
                /\ saveStoryProject(StoreOutput(call.project, call.phase,
                                                Get(output), call.revisionNotes))
                /\ last' = Response("provider", call.story, call.phase, 200)
           ELSE /\ saveStoryProject(ResetStatus(call.project, call.phase))
                /\ last' = Response("provider", call.story, call.phase, 500)
                /\ UNCHANGED phaseFile

(***************************************************************************)
(* PATCH /api/admin/stories/[storyId]/phase/[phaseNum]: approve or reject. *)
(***************************************************************************)
Approve(project, phaseNum) ==
    [project EXCEPT !.phases[phaseNum].status = "approved",
                    !.currentPhase = nextPhase(phaseNum)]

\* a reject that sends the phase back to pending and drops its output
RejectToPending(project, phaseNum, revisionNotes) ==
    [project EXCEPT !.phases[phaseNum] =
        [status |-> "pending", output |-> Null, revisionNotes |-> revisionNotes]]

Reject(project, phaseNum, revisionNotes) ==
    [project EXCEPT !.phases[phaseNum].status = "review",
                    !.phases[phaseNum].revisionNotes = revisionNotes]

\* the op recorded for a PATCH request
PatchOp(body) == IF IsSome(body) THEN Get(body).action ELSE "patch"

PatchPhase(storyId, phaseNum, body) ==
    /\ UNCHANGED << phaseFile, storyJson, propBibleJson, promptsJson, calls >>
    /\ IF phaseNum \notin Phases
       THEN /\ last' = Response(PatchOp(body), storyId, phaseNum, 400)
            /\ UNCHANGED << projectFile, indexFile >>
       ELSE IF ~IsSome(loadStoryProject(storyId))
       THEN /\ last' = Response(PatchOp(body), storyId, phaseNum, 404)
            /\ UNCHANGED << projectFile, indexFile >>
       ELSE IF ~IsSome(body)
       THEN /\ last' = Response(PatchOp(body), storyId, phaseNum, 500)
            /\ UNCHANGED << projectFile, indexFile >>
       ELSE LET project == Get(loadStoryProject(storyId))
                action == Get(body).action
                revisionNotes == Get(body).revisionNotes
            IN  CASE action = "approve" ->
                       /\ saveStoryProject(Approve(project, phaseNum))
                       /\ last' = Response(action, storyId, phaseNum, 200)
                  [] action = "reject" ->
                       /\ saveStoryProject(Reject(project, phaseNum, revisionNotes))
                       /\ last' = Response(action, storyId, phaseNum, 200)
                  [] OTHER ->
                       /\ last' = Response(action, storyId, phaseNum, 400)
                       /\ UNCHANGED << projectFile, indexFile >>

\* handleReject of the phase editors, then handlePhaseReject of the admin
\* page: the PATCH is sent only when the trimmed notes are not empty
handleReject(storyId, phaseNum, notes) ==
    /\ Trim(notes) # << >>
    /\ PatchPhase(storyId, phaseNum,
                  Some([action |-> "reject", revisionNotes |-> Some(notes)]))

(***************************************************************************)
(* The documents the content provider returns.  A document is identified   *)
(* by its number k; what a phase reads in it is given per phase.  Document *)
(* k has k spreads (as a manuscript) and k panels (as panel briefs), so    *)
(* that a manuscript and the panel briefs of a story can differ in length. *)
(* A text is a sequence of pieces; the piece NamePlaceholder is the        *)
(* {{name}} placeholder.                                                   *)
(***************************************************************************)
NamePlaceholder == "{{name}}"

\* a || b on an optional string: undefined and "" are falsy
OrElse(o, default) == IF IsSome(o) /\ Get(o) # "" THEN Get(o) ELSE default

\* an illustration note that follows the labelled format of the prompt
LabelledNote ==
    [head |-> "scene: a hill",
     scene |-> Some("a hill"), emotion |-> Some("joy"), action |-> Some("running"),
     setting |-> Some("meadow"), composition |-> Some("wide"),
     layout |-> Some("full_bleed")]

\* a free-form illustration note: no labelled field is found in it
FreeNote ==
    [head |-> "the hill at dusk",
     scene |-> None, emotion |-> None, action |-> None,
     setting |-> None, composition |-> None, layout |-> None]

\* Phase0Concept
Concept(k) ==
    [visualHook |-> IF k = SeedOutput THEN Some("Kite") ELSE None,
     ageRange |-> "3-6"]

\* Phase2Manuscript
Manuscript(k) ==
    [spreads |-> [i \in 1..k |->
        [spreadNumber |-> i,
         finalText |-> << NamePlaceholder, IF i = k THEN " goes home" ELSE " flies a kite" >>,
         illustrationNote |-> IF i = k THEN FreeNote ELSE LabelledNote]]]

\* Phase4PropsBible
PropsBible(k) ==
    [styleNotes |-> IF k = SeedOutput THEN Some("ink and wash") ELSE Some(""),
     keyObjects |->
        << [name |-> << "R", "e", "d", " ", "K", "i", "t", "e" >>,
            description |-> << "kite", k >>, appearsInSpreads |-> << 1 >>],
           [name |-> << "r", "e", "d", "-", "k", "i", "t", "e" >>,
            description |-> << "kite, torn", k >>, appearsInSpreads |-> << k >>] >>,
     environments |->
        << [name |-> << "T", "h", "e", " ", "H", "i", "l", "l", "!" >>,
            description |-> << "hill", k >>, usedInSpreads |-> << 1 >>] >>]

\* Phase5PanelBriefs
PanelBriefs(k) ==
    [panels |-> [i \in 1..k |->
        [spreadNumber |-> i, imagePrompt |-> << "panel", k, i >>]]]

(***************************************************************************)
(* POST /api/admin/stories/[storyId]/convert: convertToTemplateFiles.      *)
(***************************************************************************)
convertPhase2ToStoryJson(manuscript, concept, storyId) ==
    LET pages == [i \in 1..Len(manuscript.spreads) |->
            LET spread == manuscript.spreads[i]
                note == spread.illustrationNote
            IN  [page |-> spread.spreadNumber,
                 scene |-> OrElse(note.scene, note.head),
                 emotion |-> OrElse(note.emotion, "engaged"),
                 action |-> OrElse(note.action, "in the scene"),
                 setting |-> OrElse(note.setting, "story setting"),
                 composition_hint |-> OrElse(note.composition, "medium"),
                 text |-> spread.finalText,
                 layout |-> OrElse(note.layout, "bottom_text")]]
    IN  [id |-> storyId,
         title |-> << NamePlaceholder, "'s ", OrElse(concept.visualHook, "Story") >>,
         ageRange |-> concept.ageRange,
         pageCount |-> Len(pages),
         pages |-> pages]

\* .replace(/[^a-z0-9]+/g, "_")
RECURSIVE ReplaceRunsByUnderscore(_, _)
ReplaceRunsByUnderscore(str, inRun) ==
    IF str = << >> THEN << >>
    ELSE IF IsSlugChar(Head(str))
         THEN << Head(str) >> \o ReplaceRunsByUnderscore(Tail(str), FALSE)
         ELSE IF inRun THEN ReplaceRunsByUnderscore(Tail(str), TRUE)
              ELSE << "_" >> \o ReplaceRunsByUnderscore(Tail(str), TRUE)

\* .replace(/^_|_$/g, "")
StripUnderscores(str) ==
    LET a == IF str # << >> /\ Head(str) = "_" THEN Tail(str) ELSE str
    IN  IF a # << >> /\ a[Len(a)] = "_" THEN SubSeq(a, 1, Len(a) - 1) ELSE a

\* the key of a prop or environment
PropKey(name) ==
    StripUnderscores(
        ReplaceRunsByUnderscore([i \in 1..Len(name) |-> ToLowerCase(name[i])], FALSE))

\* the record built by a loop of convertPhase4ToPropBible over items with
\* a name, a description and appearances: an entry with a key already
\* present replaces the earlier one
KeyedEntries(items) ==
    [key \in { PropKey(items[i].name) : i \in 1..Len(items) } |->
        LET i == CHOOSE i \in 1..Len(items) :
                    /\ PropKey(items[i].name) = key
                    /\ \A j \in (i + 1)..Len(items) : PropKey(items[j].name) # key
        IN  [description |-> items[i].description,
             appearances |-> items[i].appearances]]

convertPhase4ToPropBible(phase4, storyId) ==
    [storyId |-> storyId,
     globalStyle |-> phase4.styleNotes,
     props |-> KeyedEntries([i \in 1..Len(phase4.keyObjects) |->
                    [name |-> phase4.keyObjects[i].name,
                     description |-> phase4.keyObjects[i].description,
                     appearances |-> phase4.keyObjects[i].appearsInSpreads]]),
     environments |-> KeyedEntries([i \in 1..Len(phase4.environments) |->
                    [name |-> phase4.environments[i].name,
                     description |-> phase4.environments[i].description,
                     appearances |-> phase4.environments[i].usedInSpreads]])]

DefaultStylePrompt ==
    "Soft children's book illustration, pastel colors, gentle watercolor texture"

convertPhase5ToPromptsJson(panelBriefs, propsBible, storyId) ==
    [storyId |-> storyId,
     stylePrompt |-> OrElse(propsBible.styleNotes, DefaultStylePrompt),
     negativePrompt |-> "extra characters, multiple children, inconsistent face, realistic photo, harsh shadows, text, words, letters",
     pages |-> [i \in 1..Len(panelBriefs.panels) |->
                    [page |-> panelBriefs.panels[i].spreadNumber,
                     prompt |-> panelBriefs.panels[i].imagePrompt]]]

\* a conversion that flips the flag instead of setting it
ToggleTemplateReady(project) == [project EXCEPT !.templateReady = ~@]

\* lines 879-880: the project is marked template-ready
MarkTemplateReady(project) == [project EXCEPT !.templateReady = TRUE]

ConvertStory(storyId) ==
    /\ UNCHANGED << phaseFile, calls >>
    /\ IF ~IsSome(loadStoryProject(storyId))
       THEN /\ last' = Response("convert", storyId, -1, 404)
            /\ UNCHANGED << projectFile, indexFile, storyJson, propBibleJson,
                            promptsJson >>
       ELSE LET project == Get(loadStoryProject(storyId))
                concept == project.phases[0].output
                manuscript == project.phases[2].output
                propsBible == project.phases[4].output
                panelBriefs == project.phases[5].output
            IN  IF concept = Null \/ manuscript = Null
                THEN /\ last' = Response("convert", storyId, -1, 500)
                     /\ UNCHANGED << projectFile, indexFile, storyJson,
                                     propBibleJson, promptsJson >>
                ELSE /\ storyJson' = [storyJson EXCEPT ![storyId] =
                            Some(convertPhase2ToStoryJson(Manuscript(manuscript),
                                                          Concept(concept), storyId))]
                     /\ propBibleJson' =
                            IF propsBible # Null
                            THEN [propBibleJson EXCEPT ![storyId] =
                                    Some(convertPhase4ToPropBible(PropsBible(propsBible),
                                                                  storyId))]
                            ELSE propBibleJson
                     /\ promptsJson' =
                            IF panelBriefs # Null /\ propsBible # Null
                            THEN [promptsJson EXCEPT ![storyId] =
                                    Some(convertPhase5ToPromptsJson(PanelBriefs(panelBriefs),
                                              PropsBible(propsBible), storyId))]
                            ELSE promptsJson
                     /\ saveStoryProject(MarkTemplateReady(project))
                     /\ last' = Response("convert", storyId, -1, 200)

(***************************************************************************)
(* The admin session.  Each StoryProject has one writer at a time: a       *)
(* request for a story is sent when no generate call of that story is      *)
(* awaiting the provider.  Requests for different stories interleave.      *)
(***************************************************************************)
Quiet(storyId) == \A c \in calls : c.story # storyId

\* a request of the admin client, counted against the budget of the run
Request(storyId) ==
    /\ Quiet(storyId)
    /\ requests < MaxRequests
    /\ requests' = requests + 1

\* the pipeline requests of a session for the stories `ids`
PipelineNext(ids) ==
    \/ \E s \in ids, n \in PhaseNums, body \in GenerateBodies :
            Request(s) /\ GenerateBegin(s, n, body)
    \/ \E c \in calls, reply \in ProviderReplies :
            GenerateComplete(c, reply) /\ UNCHANGED requests
    \/ \E s \in ids, n \in PhaseNums, body \in PatchBodies :
            Request(s) /\ PatchPhase(s, n, body)
    \/ \E s \in ids, n \in PhaseNums, notes \in NoteTexts :
            Request(s) /\ handleReject(s, n, notes)
    \/ \E s \in ids : Request(s) /\ ConvertStory(s)

\* the requests of a session that works on the stories named `names`
SessionNext(names) ==
    LET ids == { Slug(Trim(name)) : name \in names }
    IN  \/ \E name \in names : Request(Slug(Trim(name))) /\ CreateStory(name)
        \/ \E s \in ids : Request(s) /\ DeleteStory(s)
        \/ PipelineNext(ids)

\* the session that runs the pipeline of one story
PipelineNames == { << "A" >> }

Next == SessionNext(PipelineNames) /\ UNCHANGED << book, calc, editor >>

Spec == Init /\ [][Next]_vars

(***************************************************************************)
(* The seeded stores of Init are stores the program produces: SeedSpec     *)
(* starts from the empty store and runs the pipeline of SeedStory in       *)
(* order (create, then generate and approve phase after phase), and        *)
(* reaches every SeededStore(k, inReview) and every PipelineStore(k, docs).*)
(***************************************************************************)
SeedInit ==
    /\ EmptyStore
    /\ storyJson = NoFiles
    /\ propBibleJson = NoFiles
    /\ promptsJson = NoFiles
    /\ calls = {}
    /\ requests = 0
    /\ last = Response("none", << >>, -1, 0)
    /\ book = BookIdle
    /\ calc = CalcIdle
    /\ editor = None

SeedNext ==
    /\ UNCHANGED << requests, book, calc, editor >>
    /\ \/ ~IsSome(projectFile[SeedStory]) /\ CreateStory(<< "A" >>)
       \/ \E n \in Phases :
            /\ calls = {}
            /\ IsSome(projectFile[SeedStory])
            /\ Get(projectFile[SeedStory]).phases[n].status = "pending"
            /\ \A m \in Phases : m < n =>
                   Get(projectFile[SeedStory]).phases[m].status = "approved"
            /\ GenerateBegin(SeedStory, n, Some([revisionNotes |-> None]))
       \/ \E c \in calls, o \in Outputs :
            GenerateComplete(c, [error |-> FALSE, content |-> << Json(o) >>])
       \/ \E n \in Phases :
            /\ IsSome(projectFile[SeedStory])
            /\ Get(projectFile[SeedStory]).phases[n].status = "review"
            /\ PatchPhase(SeedStory, n, Some([action |-> "approve", revisionNotes |-> None]))

SeedSpec == SeedInit /\ [][SeedNext]_vars

(***************************************************************************)
(* Conversion on its own: the store holds the project of SeedStory with    *)
(* its first k phases generated and approved, each with any document, and  *)
(* the admin page sends convert requests one after the other.              *)
(***************************************************************************)
PipelineProject(k, docs) ==
    [id |-> SeedStory,
     phases |-> [n \in Phases |->
                    IF IndexOf(PHASE_ORDER, n) <= k
                    THEN [status |-> "approved", output |-> docs[n],
                          revisionNotes |-> None]
                    ELSE createEmptyPhaseState],
     currentPhase |-> IF k = 0 THEN 0 ELSE nextPhase(PHASE_ORDER[k]),
     templateReady |-> FALSE]

PipelineStore(k, docs) ==
    /\ projectFile = [NoFiles EXCEPT ![SeedStory] = Some(PipelineProject(k, docs))]
    /\ phaseFile = [s \in StoryIds |-> [n \in Phases |->
                      IF s = SeedStory /\ IndexOf(PHASE_ORDER, n) <= k
                      THEN Some(docs[n]) ELSE None]]
    /\ indexFile = Some(<< LegacyEntry,
                           [id |-> SeedStory,
                            currentPhase |-> PipelineProject(k, docs).currentPhase,
                            templateReady |-> FALSE, isLegacy |-> FALSE] >>)

ConvertInit ==
    /\ \E k \in 0..Len(PHASE_ORDER), docs \in [Phases -> Outputs] :
            PipelineStore(k, docs)
    /\ storyJson = NoFiles
    /\ propBibleJson = NoFiles
    /\ promptsJson = NoFiles
    /\ calls = {}
    /\ requests = 0
    /\ last = Response("none", << >>, -1, 0)
    /\ book = BookIdle
    /\ calc = CalcIdle
    /\ editor = None

ConvertNext == Request(SeedStory) /\ ConvertStory(SeedStory) /\ UNCHANGED << book, calc, editor >>

ConvertSpec == ConvertInit /\ [][ConvertNext]_vars

(***************************************************************************)
(* The catalogue of stories: create and delete requests for every story,   *)
(* the legacy story included.                                              *)
(***************************************************************************)
CatalogNext ==
    /\ UNCHANGED << book, calc, editor >>
    /\ \/ \E name \in StoryNames : Request(Slug(Trim(name))) /\ CreateStory(name)
       \/ \E s \in StoryIds : Request(s) /\ DeleteStory(s)

CatalogSpec == Init /\ [][CatalogNext]_vars

(***************************************************************************)
(* Two stories side by side.  SeedStory is in the middle of its pipeline,  *)
(* with a phase in review, and receives the requests of the session.       *)
(* OtherStory has its whole pipeline approved and a regeneration of its    *)
(* last phase awaiting the provider, which completes at any moment between *)
(* the requests for SeedStory.                                             *)
(***************************************************************************)
OtherStory == Slug(<< "b" >>)

OtherProject(inFlight) ==
    LET project == [PipelineProject(Len(PHASE_ORDER), [n \in Phases |-> SeedOutput])
                        EXCEPT !.id = OtherStory]
        lastPhase == PHASE_ORDER[Len(PHASE_ORDER)]
    IN  IF inFlight THEN MarkGenerating(project, lastPhase) ELSE project

OtherCalls(inFlight) ==
    IF inFlight
    THEN { [story |-> OtherStory, phase |-> PHASE_ORDER[Len(PHASE_ORDER)],
            revisionNotes |-> None, project |-> OtherProject(TRUE)] }
    ELSE {}

TwoStories(k, inReview, inFlight) ==
    /\ projectFile = [NoFiles EXCEPT ![SeedStory] = Some(SeedProject(k, inReview)),
                                     ![OtherStory] = Some(OtherProject(inFlight))]
    /\ phaseFile = [s \in StoryIds |-> [n \in Phases |->
                      IF \/ s = SeedStory /\ SeedPhase(n, k, inReview).output # Null
                         \/ s = OtherStory
                      THEN Some(SeedOutput) ELSE None]]
    /\ indexFile = Some(<< LegacyEntry,
                           [id |-> SeedStory,
                            currentPhase |-> SeedProject(k, inReview).currentPhase,
                            templateReady |-> FALSE, isLegacy |-> FALSE],
                           [id |-> OtherStory,
                            currentPhase |-> OtherProject(inFlight).currentPhase,
                            templateReady |-> FALSE, isLegacy |-> FALSE] >>)
    /\ calls = OtherCalls(inFlight)

IsolationInit ==
    /\ TwoStories(IndexOf(PHASE_ORDER, 2), TRUE, TRUE)
    /\ storyJson = NoFiles
    /\ propBibleJson = NoFiles
    /\ promptsJson = NoFiles
    /\ requests = 0
    /\ last = Response("none", << >>, -1, 0)
    /\ book = BookIdle
    /\ calc = CalcIdle
    /\ editor = None

IsolationNext == PipelineNext({ SeedStory }) /\ UNCHANGED << book, calc, editor >>

IsolationSpec == IsolationInit /\ [][IsolationNext]_vars

(***************************************************************************)
(* The runtime template store and POST /api/generate (generate book).      *)
(* The request names a story and a child, may limit the pages and may      *)
(* carry storyboard panels, at most one per page.  characterDescription    *)
(* and characterSheetUrl are taken as present.  Each image is one call of  *)
(* the image provider, which returns an image or throws.                   *)
(***************************************************************************)
\* String.prototype.replace with a string as the replacement: the special
\* patterns of the replacement are expanded for the match at position i,
\* any other name is inserted as it is
Replacement(text, i, name) ==
    CASE name = "$$" -> << "$" >>
      [] name = "$&" -> << text[i] >>
      [] name = "$'" -> SubSeq(text, i + 1, Len(text))
      [] OTHER -> << name >>

\* the pieces of text from position i on, every {{name}} replaced
RECURSIVE ReplaceFrom(_, _, _)
ReplaceFrom(text, i, name) ==
    IF i > Len(text) THEN << >>
    ELSE (IF text[i] = NamePlaceholder THEN Replacement(text, i, name)
          ELSE << text[i] >>)
         \o ReplaceFrom(text, i + 1, name)

\* replacePlaceholders: text.replace(/\{\{name\}\}/g, name)
replacePlaceholders(text, name) == ReplaceFrom(text, 1, name)

\* the hardcoded story template (story.json of adventure-story)
LegacyStory ==
    [id |-> LegacyId,
     title |-> << NamePlaceholder, "'s Big Adventure" >>,
     pages |-> [i \in 1..MaxPages |->
                    [page |-> i, text |-> << "One day ", NamePlaceholder, " set out" >>]]]

\* generateStoryboard: the legacy story with the name filled in
generateStoryboard(name) ==
    [id |-> LegacyStory.id,
     title |-> replacePlaceholders(LegacyStory.title, name),
     pages |-> [i \in 1..Len(LegacyStory.pages) |->
                    [page |-> LegacyStory.pages[i].page,
                     text |-> replacePlaceholders(LegacyStory.pages[i].text, name)]]]

\* loadStoryTemplateForStory: None unless story.json and prompts.json exist
loadStoryTemplateForStory(storyId) ==
    IF storyId \in StoryIds /\ IsSome(storyJson[storyId]) /\ IsSome(promptsJson[storyId])
    THEN Some([story |-> Get(storyJson[storyId]), prompts |-> Get(promptsJson[storyId])])
    ELSE None

\* generateStoryboardForStory: None when the story has no template
generateStoryboardForStory(storyId, name) ==
    IF storyId = LegacyId THEN Some(generateStoryboard(name))
    ELSE LET template == loadStoryTemplateForStory(storyId)
         IN  IF ~IsSome(template) THEN None
             ELSE LET story == Get(template).story
                  IN  Some([id |-> story.id,
                            title |-> replacePlaceholders(story.title, name),
                            pages |-> [i \in 1..Len(story.pages) |->
                                [page |-> story.pages[i].page,
                                 text |-> replacePlaceholders(story.pages[i].text, name)]]])

\* sketch URLs: a local path, a provider URL that still answers, one that
\* has expired
LocalUrl == [http |-> FALSE, live |-> FALSE]
LiveUrl == [http |-> TRUE, live |-> TRUE]
ExpiredUrl == [http |-> TRUE, live |-> FALSE]

\* a probe that reports every URL accessible
AlwaysAccessible(url) == TRUE

\* isUrlAccessible: local paths are accessible, other URLs are probed
isUrlAccessible(url) == ~url.http \/ url.live

\* the panel a request carries for one page: none, or approved / not
\* approved with or without a sketch URL
PanelOptions ==
    { None, Some([approved |-> FALSE, sketchUrl |-> Some(LiveUrl)]) }
    \cup { Some([approved |-> TRUE, sketchUrl |-> u]) :
                u \in { None, Some(LocalUrl), Some(LiveUrl), Some(ExpiredUrl) } }

\* storyboardPanels of a request, by page
PanelInputs == [1..MaxPages -> PanelOptions]

ChildNames == { "", "Mia" }
BookStoryIds == StoryIds
PageLimits == { None, Some(1) }

\* lines 201-213: page -> sketch URL, for approved panels whose URL is
\* accessible
BuildPanelMap(panels) ==
    [p \in { q \in DOMAIN panels :
                /\ IsSome(panels[q])
                /\ IsSome(Get(panels[q]).sketchUrl)
                /\ Get(panels[q]).approved
                /\ isUrlAccessible(Get(Get(panels[q]).sketchUrl)) }
        |-> Get(Get(panels[p]).sketchUrl)]

\* pages.slice(0, pageLimit)
LimitPages(pages, pageLimit) ==
    IF IsSome(pageLimit) /\ Get(pageLimit) > 0
    THEN SubSeq(pages, 1, IF Get(pageLimit) < Len(pages) THEN Get(pageLimit) ELSE Len(pages))
    ELSE pages

BookResponse(status, generated, total) ==
    [status |-> status, imagesGenerated |-> generated, totalImages |-> total]

storeVars == << projectFile, phaseFile, storyJson, propBibleJson, promptsJson,
                indexFile, calls, requests, last >>

\* the request up to the first image: lines 116-214
GenerateBook(storyId, childName, pageLimit, panels) ==
    /\ book.pc = "idle"
    /\ UNCHANGED storeVars
    /\ LET storyboard == IF storyId # LegacyId
                         THEN generateStoryboardForStory(storyId, childName)
                         ELSE Some(generateStoryboard(childName))
           request == [book EXCEPT !.storyId = storyId, !.childName = childName,
                                   !.panels = panels]
       IN  IF childName = ""
           THEN book' = [request EXCEPT !.pc = "done",
                                        !.response = Some(BookResponse(400, None, None))]
           ELSE IF ~IsSome(storyboard)
           THEN book' = [request EXCEPT !.pc = "done",
                                        !.response = Some(BookResponse(404, None, None))]
           ELSE book' = [request EXCEPT
                    !.pc = "loop",
                    !.storyboard = Some([Get(storyboard) EXCEPT
                                            !.pages = LimitPages(@, pageLimit)]),
                    !.loop = IF \E p \in DOMAIN panels : IsSome(panels[p])
                             THEN "route" ELSE "generateBookIllustrations",
                    !.panelMap = IF \E p \in DOMAIN panels : IsSome(panels[p])
                                 THEN BuildPanelMap(panels) ELSE << >>]

\* one iteration of a loop: the image of the next page is requested; when
\* the provider throws the error is rethrown and the catch block of the
\* route answers 500 with the error message alone
LoopStep(mode, ok) ==
    LET pages == Get(book.storyboard).pages
        i == Len(book.produced) + 1
    IN  /\ i <= Len(pages)
        /\ IF ok
           THEN book' = [book EXCEPT !.produced =
                            Append(@, [pageNumber |-> pages[i].page, mode |-> mode])]
           ELSE book' = [book EXCEPT !.pc = "done", !.failedAt = i,
                                     !.response = Some(BookResponse(500, None, None))]

\* lines 216-264: the loop of the route, img2img from the sketch of the
\* page when the panel map has one, the no-sketch prompt otherwise
GeneratePageInRoute(ok) ==
    /\ book.pc = "loop" /\ book.loop = "route"
    /\ UNCHANGED storeVars
    /\ LET pages == Get(book.storyboard).pages
           i == Len(book.produced) + 1
       IN  /\ i <= Len(pages)
           /\ LoopStep(IF pages[i].page \in DOMAIN book.panelMap
                       THEN "img2img" ELSE "text", ok)

\* generateBookIllustrations: one iteration of its loop
generateBookIllustrations(ok) ==
    /\ book.pc = "loop" /\ book.loop = "generateBookIllustrations"
    /\ UNCHANGED storeVars
    /\ LoopStep("text", ok)

\* lines 277-287: every page has its image
BookComplete ==
    /\ book.pc = "loop"
    /\ Len(book.produced) = Len(Get(book.storyboard).pages)
    /\ UNCHANGED storeVars
    /\ book' = [book EXCEPT !.pc = "done",
                            !.response = Some(BookResponse(200,
                                    Some(Len(book.produced)),
                                    Some(Len(Get(book.storyboard).pages))))]

\* the store after a successful convert of PipelineStore(k, docs)
ConvertedStore(k, docs) ==
    /\ projectFile = [NoFiles EXCEPT ![SeedStory] =
                            Some(MarkTemplateReady(PipelineProject(k, docs)))]
    /\ phaseFile = [s \in StoryIds |-> [n \in Phases |->
                      IF s = SeedStory /\ IndexOf(PHASE_ORDER, n) <= k
                      THEN Some(docs[n]) ELSE None]]
    /\ indexFile = Some(<< LegacyEntry,
                           [id |-> SeedStory,
                            currentPhase |-> PipelineProject(k, docs).currentPhase,
                            templateReady |-> TRUE, isLegacy |-> FALSE] >>)
    /\ storyJson = [NoFiles EXCEPT ![SeedStory] =
            Some(convertPhase2ToStoryJson(Manuscript(docs[2]), Concept(docs[0]), SeedStory))]
    /\ propBibleJson =
            IF IndexOf(PHASE_ORDER, 4) <= k
            THEN [NoFiles EXCEPT ![SeedStory] =
                    Some(convertPhase4ToPropBible(PropsBible(docs[4]), SeedStory))]
            ELSE NoFiles
    /\ promptsJson =
            IF IndexOf(PHASE_ORDER, 5) <= k
            THEN [NoFiles EXCEPT ![SeedStory] =
                    Some(convertPhase5ToPromptsJson(PanelBriefs(docs[5]),
                                                    PropsBible(docs[4]), SeedStory))]
            ELSE NoFiles

\* The store the book requests run over: empty, or holding SeedStory
\* converted after phase 2 or after phase 5.
BookInit ==
    /\ \/ /\ EmptyStore
          /\ storyJson = NoFiles /\ propBibleJson = NoFiles /\ promptsJson = NoFiles
       \/ \E k \in { IndexOf(PHASE_ORDER, 2), IndexOf(PHASE_ORDER, 5) },
             manuscript \in Outputs, panelBriefs \in Outputs :
            ConvertedStore(k, [n \in Phases |->
                                 CASE n = 2 -> manuscript
                                   [] n = 5 -> panelBriefs
                                   [] OTHER -> SeedOutput])
    /\ calls = {}
    /\ requests = 0
    /\ last = Response("none", << >>, -1, 0)
    /\ book = BookIdle
    /\ calc = CalcIdle
    /\ editor = None

BookNext ==
    /\ UNCHANGED << calc, editor >>
    /\ \/ \E storyId \in BookStoryIds, childName \in ChildNames,
             pageLimit \in PageLimits, panels \in PanelInputs :
               GenerateBook(storyId, childName, pageLimit, panels)
       \/ \E ok \in BOOLEAN : GeneratePageInRoute(ok)
       \/ \E ok \in BOOLEAN : generateBookIllustrations(ok)
       \/ BookComplete

BookSpec == BookInit /\ [][BookNext]_vars

(***************************************************************************)
(* Library functions applied to inputs.  In the specifications below the   *)
(* store is empty and idle; Init draws an input and each action applies    *)
(* one function to it.                                                     *)
(***************************************************************************)
IdleStore ==
    /\ EmptyStore
    /\ storyJson = NoFiles
    /\ propBibleJson = NoFiles
    /\ promptsJson = NoFiles
    /\ calls = {}
    /\ requests = 0
    /\ last = Response("none", << >>, -1, 0)
    /\ book = BookIdle
    /\ editor = None

\* the input a function is applied to
Input(x) == [op |-> "input", in |-> x, out |-> << >>]

\* function op is applied to the input drawn by Init
Apply(op, result) ==
    /\ calc.op = "input"
    /\ calc' = [op |-> op, in |-> calc.in, out |-> result]
    /\ UNCHANGED << storeVars, book, editor >>

(***************************************************************************)
(* character-profile: a prompt text is a sequence of pieces, a piece being *)
(* literal text of the function or the value of a profile field.           *)
(***************************************************************************)
Lit(str) == [lit |-> TRUE, s |-> str, n |-> 0]
Val(str, n) == [lit |-> FALSE, s |-> str, n |-> n]

\* Array.prototype.join on texts
RECURSIVE Join(_, _)
Join(parts, sep) ==
    IF parts = << >> THEN << >>
    ELSE IF Len(parts) = 1 THEN parts[1]
    ELSE parts[1] \o << sep >> \o Join(Tail(parts), sep)

\* sequences of distinct elements of S of length at most n
RECURSIVE DistinctSeqs(_, _)
DistinctSeqs(S, n) ==
    IF n = 0 THEN { << >> }
    ELSE LET shorter == DistinctSeqs(S, n - 1)
             longest == { r \in shorter : Len(r) = n - 1 }
             Fresh(q) == { x \in S : \A i \in 1..Len(q) : q[i] # x }
         IN  shorter \cup UNION { { Append(q, x) : x \in Fresh(q) } : q \in longest }

\* the profiles of the model: the fields that vary are the hair style and
\* the clothing (empty or not), the distinctive features and do_not_change
Profiles ==
    { [approx_age |-> << Val("young", 0), Lit("_"), Val("child", 0) >>,
       gender_presentation |-> Val("girl", 0),
       hair |-> [color |-> Val("brown", 0), length |-> Val("long", 0),
                 texture |-> Val("wavy", 0), style |-> style],
       face |-> [shape |-> Val("round", 0)],
       eyes |-> [color |-> Val("green", 0), shape |-> Val("almond", 0)],
       skin_tone |-> Val("olive", 0),
       distinctive_features |-> features,
       clothing |-> clothing,
       do_not_change |-> keep] :
        style \in { None, Some(Val("in braids", 0)) },
        clothing \in { None, Some(Val("red coat", 0)) },
        features \in DistinctSeqs({ Val("feature", i) : i \in 1..MaxFeatures }, MaxFeatures),
        keep \in { << >>, << Val("birthmark on left cheek", 0) >> } }

\* ageMap of profileToDescription
AgeMap(approx_age) == << Lit("young child (4-6 years old)") >>

\* profileToDescription
profileToDescription(profile) ==
    LET parts ==
            << << Lit("A ") >> \o AgeMap(profile.approx_age) \o
                    << Lit(" "), profile.gender_presentation >>,
               << Lit("with "), profile.hair.length, Lit(" "), profile.hair.color,
                  Lit(" "), profile.hair.texture, Lit(" hair") >> \o
                    (IF IsSome(profile.hair.style)
                     THEN << Lit(" styled "), Get(profile.hair.style) >> ELSE << >>),
               << profile.eyes.color, Lit(" "), profile.eyes.shape, Lit(" eyes") >>,
               << profile.skin_tone, Lit(" skin tone") >>,
               << profile.face.shape, Lit(" face shape") >> >>
            \o (IF Len(profile.distinctive_features) > 0
                THEN << << Lit("Notable features: ") >> \o
                        Join([i \in 1..Len(profile.distinctive_features) |->
                                << profile.distinctive_features[i] >>], Lit(", ")) >>
                ELSE << >>)
            \o (IF IsSome(profile.clothing)
                THEN << << Lit("Wearing: "), Get(profile.clothing) >> >>
                ELSE << >>)
    IN  Join(parts, Lit(". ")) \o << Lit(".") >>

\* approx_age.replace("_", " ")
ReplaceUnderscore(text) ==
    LET first == IF \E i \in 1..Len(text) : text[i] = Lit("_")
                 THEN CHOOSE i \in 1..Len(text) :
                        text[i] = Lit("_") /\ \A j \in 1..(i - 1) : text[j] # Lit("_")
                 ELSE 0
    IN  [i \in 1..Len(text) |-> IF i = first THEN Lit(" ") ELSE text[i]]

\* slice(0, 2)
Slice2(seq) == SubSeq(seq, 1, IF Len(seq) < 2 THEN Len(seq) ELSE 2)

\* profileToPromptSummary
profileToPromptSummary(profile) ==
    LET features ==
            << ReplaceUnderscore(profile.approx_age) \o
                    << Lit(" "), profile.gender_presentation >>,
               << profile.hair.color, Lit(" "), profile.hair.texture, Lit(" hair") >>,
               << profile.eyes.color, Lit(" eyes") >>,
               << profile.skin_tone, Lit(" skin") >> >>
            \o (IF Len(profile.distinctive_features) > 0
                THEN << Join([i \in 1..Len(Slice2(profile.distinctive_features)) |->
                                << profile.distinctive_features[i] >>], Lit(", ")) >>
                ELSE << >>)
            \o (IF IsSome(profile.clothing)
                THEN << << Lit("wearing "), Get(profile.clothing) >> >>
                ELSE << >>)
    IN  Join(features, Lit(", "))

\* getIdentityAnchors
getIdentityAnchors(profile) ==
    << << profile.hair.color, Lit(" "), profile.hair.texture, Lit(" hair") >>,
       << profile.eyes.color, Lit(" eyes") >>,
       << profile.skin_tone, Lit(" skin tone") >> >>
    \o [i \in 1..Len(profile.distinctive_features) |-> << profile.distinctive_features[i] >>]
    \o [i \in 1..Len(profile.do_not_change) |-> << profile.do_not_change[i] >>]

ProfileInit == IdleStore /\ \E profile \in Profiles : calc = Input(profile)

ProfileNext ==
    \/ Apply("profileToPromptSummary", profileToPromptSummary(calc.in))
    \/ Apply("profileToDescription", profileToDescription(calc.in))

ProfileSpec == ProfileInit /\ [][ProfileNext]_vars

(***************************************************************************)
(* prompt composers.  A text is a sequence of pieces; an optional field    *)
(* is None when the object has no such property.  A composer returns its   *)
(* prompt or, where the JavaScript reads a property of undefined, the      *)
(* TypeError it throws.                                                    *)
(***************************************************************************)
Word(str) == Val(str, 0)
Period == Word(".")
Returned(text) == [ok |-> TRUE, text |-> text]
TypeError == [ok |-> FALSE, text |-> << >>]

\* JavaScript truthiness of an optional string
TruthyText(opt) == IsSome(opt) /\ Get(opt) # << >>

STORYBOARD_STYLE_PROMPT ==
    << Lit("loose sketch, soft shapes, simplified forms, low detail, black and white only, no text, no border, minimal background") >>

defaultCompositionHints ==
    [ wide |-> << Lit("wide shot showing full scene and environment") >>,
      medium |-> << Lit("medium shot showing character and surroundings") >>,
      close |-> << Lit("close-up shot focusing on character") >> ]

layoutHints ==
    [ left_text |-> << Lit("main subject on the right side, empty space on left") >>,
      right_text |-> << Lit("main subject on the left side, empty space on right") >>,
      bottom_text |-> << Lit("main action in upper two-thirds, clear lower area") >>,
      full_bleed |-> << Lit("balanced full scene composition") >> ]

\* the prop keys and the environment key of the model
PropKeys == 1..MaxProps
EnvironmentKey == "park"

PropDescription(key) == << Val("prop", key) >>

\* an entry of a JSON object: props and environments map a key to an object
\* with a description, compositions maps a page number to a text
Entry(key, description) == [key |-> key, description |-> description]

\* StoryPage: props and environment are optional
StoryPages ==
    { [page |-> 1, scene |-> << Word("a windy hill") >>, props |-> props,
       environment |-> environment, composition_hint |-> hint, layout |-> layout] :
        props \in { None } \cup { Some(q) : q \in DistinctSeqs(PropKeys, MaxProps) },
        environment \in { None, Some(EnvironmentKey) },
        hint \in { "wide", "medium", "close" },
        layout \in { "bottom_text", "full_bleed" } }

\* PropBible: globalStyle, globalInstructions and compositions are optional
\* in the type; props and environments are read from an unvalidated JSON
\* file and can be missing as well
PropBibles ==
    { [globalStyle |-> style, globalInstructions |-> instructions,
       compositions |-> compositions, props |-> props, environments |-> environments] :
        style \in { None, Some(<< >>), Some(<< Word("ink wash") >>),
                    Some(<< Word("soft pencil"), Period >>) },
        instructions \in { None, Some(<< Word("no text") >>) },
        compositions \in { None, Some(<< >>),
                           Some(<< Entry(1, << Word("low angle") >>) >>) },
        props \in { None } \cup
                  { Some([i \in 1..Len(keys) |-> Entry(keys[i], PropDescription(keys[i]))]) :
                        keys \in { q \in DistinctSeqs(PropKeys, MaxProps) :
                                      \A i, j \in 1..Len(q) : i < j => q[i] < q[j] } },
        environments \in { None, Some(<< >>),
                           Some(<< Entry(EnvironmentKey, << >>) >>),
                           Some(<< Entry(EnvironmentKey, << Word("a green park") >>) >>) } }

\* record[key], None when the record has no such key
Lookup(record, key) ==
    IF \E i \in 1..Len(record) : record[i].key = key
    THEN Some((CHOOSE e \in { record[i] : i \in 1..Len(record) } : e.key = key).description)
    ELSE None

\* propBible.compositions[page.page], "" when not set
CompositionOverride(page, propBible) ==
    IF IsSome(propBible.compositions)
       /\ IsSome(Lookup(Get(propBible.compositions), page.page))
    THEN Get(Lookup(Get(propBible.compositions), page.page))
    ELSE << >>

\* the descriptions of the props of the page that the prop bible defines
RECURSIVE PropDescriptions(_, _)
PropDescriptions(keys, props) ==
    IF keys = << >> THEN << >>
    ELSE (IF IsSome(Lookup(props, Head(keys)))
          THEN << Get(Lookup(props, Head(keys))) >> ELSE << >>)
         \o PropDescriptions(Tail(keys), props)

\* buildStoryboardPanelPromptWithProps
buildStoryboardPanelPromptWithProps(page, propBible) ==
    LET override == CompositionOverride(page, propBible)
        compositionHint ==
            IF override # << >> THEN override
            ELSE defaultCompositionHints[page.composition_hint]
        layout == layoutHints[page.layout]
        readsProps == IsSome(page.props) /\ Len(Get(page.props)) > 0
        readsEnvironments == IsSome(page.environment)
        propDescriptions ==
            IF readsProps THEN PropDescriptions(Get(page.props), Get(propBible.props))
            ELSE << >>
        environmentDescription ==
            IF readsEnvironments
               /\ IsSome(Lookup(Get(propBible.environments), Get(page.environment)))
            THEN Get(Lookup(Get(propBible.environments), Get(page.environment)))
            ELSE << >>
        stylePrompt == IF TruthyText(propBible.globalStyle)
                       THEN Get(propBible.globalStyle) ELSE STORYBOARD_STYLE_PROMPT
        parts ==
            << << Lit("Place the outline from the input image into this scene: ") >>
                    \o page.scene >>
            \o (IF Len(propDescriptions) > 0
                THEN << << Lit("Key objects: ") >> \o Join(propDescriptions, Lit("; ")) >>
                ELSE << >>)
            \o (IF environmentDescription # << >>
                THEN << << Lit("Environment: ") >> \o environmentDescription >>
                ELSE << >>)
            \o << << Lit("Composition: ") >> \o compositionHint >>
            \o (IF layout # << >> THEN << layout >> ELSE << >>)
            \o (IF TruthyText(propBible.globalInstructions)
                THEN << Get(propBible.globalInstructions) >> ELSE << >>)
            \o << << Lit("Style: ") >> \o stylePrompt >>
    IN  IF \/ readsProps /\ ~IsSome(propBible.props)
           \/ readsEnvironments /\ ~IsSome(propBible.environments)
        THEN TypeError
        ELSE Returned(Join(parts, Lit(". ")) \o << Lit(".") >>)

PLACEHOLDER_INSTRUCTION ==
    << Lit("The protagonist is the WHITE BLANK OUTLINE from the input image. Keep it as a featureless white silhouette - NO face, NO eyes, NO hair, NO skin color, NO clothing detail. It is a plain white placeholder shape to be filled in later.") >>

\* a reference to the protagonist that sanitizeChildReferences matches
ChildReference == Word("the child")

\* sanitizeChildReferences
sanitizeChildReferences(text, forStoryboard) ==
    [i \in 1..Len(text) |->
        IF text[i] = ChildReference
        THEN (IF forStoryboard THEN Lit("the white outline placeholder")
              ELSE Lit("the character"))
        ELSE text[i]]

\* the tokens of a character-staging text: a word of the facial vocabulary,
\* any other word, the sentence terminators and white space
FacialWord == Word("smiling")
PlainWord == Word("kneels")
Semicolon == Word(";")
Exclamation == Word("!")
Space == Word(" ")
StagingTokens == { FacialWord, PlainWord, Period, Semicolon, Exclamation, Space }
IsWord(token) == token \in { FacialWord, PlainWord, ChildReference }

\* the first position from i on that holds "." or ";", 0 when there is none
NextTerminator(text, i) ==
    IF \E e \in i..Len(text) : text[e] \in { Period, Semicolon }
    THEN CHOOSE e \in i..Len(text) :
            /\ text[e] \in { Period, Semicolon }
            /\ \A d \in i..(e - 1) : text[d] \notin { Period, Semicolon }
    ELSE 0

\* \b(expression|eyes|...)\b matches at position j
FacialMatchAt(text, j) ==
    /\ text[j] = FacialWord
    /\ j > 1 => ~IsWord(text[j - 1])
    /\ j < Len(text) => ~IsWord(text[j + 1])

\* the position after the white space that starts at i
RECURSIVE SkipSpace(_, _)
SkipSpace(text, i) ==
    IF i <= Len(text) /\ text[i] = Space THEN SkipSpace(text, i + 1) ELSE i

\* text.replace(/[^.;]*\b(...)\b[^.;]*[.;]\s*/gi, "") from position i on
RECURSIVE RemoveFacialFrom(_, _)
RemoveFacialFrom(text, i) ==
    IF i > Len(text) THEN << >>
    ELSE LET e == NextTerminator(text, i)
         IN  IF e = 0 THEN SubSeq(text, i, Len(text))
             ELSE IF \E j \in i..(e - 1) : FacialMatchAt(text, j)
                  THEN RemoveFacialFrom(text, SkipSpace(text, e + 1))
                  ELSE SubSeq(text, i, e) \o RemoveFacialFrom(text, e + 1)

\* String.prototype.trim on tokens
RECURSIVE TrimTokens(_)
TrimTokens(text) ==
    IF text # << >> /\ Head(text) = Space THEN TrimTokens(Tail(text))
    ELSE IF text # << >> /\ text[Len(text)] = Space
         THEN TrimTokens(SubSeq(text, 1, Len(text) - 1))
         ELSE text

\* stripFacialDetails
stripFacialDetails(text) == TrimTokens(RemoveFacialFrom(text, 1))

\* the spread of the panel brief, and a spread no entry of the bible is used in
SpreadNumber == 1

\* Phase5PanelBrief: objectsInFrame may be empty
Brief(staging, objects) ==
    [spreadNumber |-> SpreadNumber,
     composition |-> << ChildReference, Word(" on a hill") >>,
     environment |-> << Word("windy hill") >>,
     charactersInFrame |-> staging,
     objectsInFrame |-> objects,
     emotionalDirection |-> << Word("joyful") >>]

\* the entries of a props bible that are used in the spread: an array that
\* is missing, empty or has one entry
Listed(entry) == { None, Some(<< >>), Some(<< entry >>) }

\* Phase4PropsBible, as parsed from the reply of the provider (no schema is
\* applied): any array can be missing, and so can the palette of an
\* environment
PropsBibles ==
    { [environments |-> environments, supportingCharacters |-> supporting,
       keyObjects |-> objects, visualMotifs |-> motifs, styleNotes |-> notes] :
        environments \in UNION { Listed([name |-> Word("Hill"),
                                         description |-> << Word("grassy") >>,
                                         usedInSpreads |-> { SpreadNumber },
                                         colorPalette |-> palette,
                                         lightSource |-> light]) :
                                    palette \in { None, Some(<< >>),
                                                  Some(<< << Word("blue") >>,
                                                          << Word("cream") >> >>) },
                                    light \in { None, Some(<< Word("morning sun") >>) } },
        supporting \in Listed([name |-> Word("Fox"), description |-> << Word("small") >>,
                               appearsInSpreads |-> { SpreadNumber }]),
        objects \in Listed([name |-> Word("Kite"), description |-> << Word("red") >>,
                            stateChanges |-> None,
                            appearsInSpreads |-> { SpreadNumber }]),
        motifs \in Listed([motif |-> Word("wind"), purpose |-> Word("change"),
                           appearsInSpreads |-> { SpreadNumber }]),
        notes \in { None, Some(<< Word("gouache") >>) } }

\* array.filter(x => x.appearsInSpreads.includes(spreadNum))
RECURSIVE InSpread(_, _)
InSpread(entries, spreadNum) ==
    IF entries = << >> THEN << >>
    ELSE (IF spreadNum \in Head(entries).appearsInSpreads
          THEN << Head(entries) >> ELSE << >>)
         \o InSpread(Tail(entries), spreadNum)

\* the characters section of buildStoryboardPanelPromptFromPhase5
CharacterLine(panelBrief, supportingInSpread, forStoryboard) ==
    LET supportingParts ==
            [i \in 1..Len(supportingInSpread) |->
                << supportingInSpread[i].name, Lit(": ") >>
                \o supportingInSpread[i].description]
        rawStaging == sanitizeChildReferences(panelBrief.charactersInFrame, TRUE)
        cleanStaging == stripFacialDetails(rawStaging)
        staging == sanitizeChildReferences(panelBrief.charactersInFrame, FALSE)
    IN  IF forStoryboard
        THEN << Lit("CHARACTERS: ") >>
             \o Join(<< << Lit("The white outline placeholder (featureless white silhouette, NO face, NO features)") >>
                        \o (IF cleanStaging # << >>
                            THEN << Lit(": ") >> \o cleanStaging ELSE << >>) >>
                     \o supportingParts, Lit("; "))
        ELSE << Lit("CHARACTER_DIRECTION: ") >>
             \o Join(<< staging >> \o supportingParts, Lit("; "))

\* buildStoryboardPanelPromptFromPhase5
buildStoryboardPanelPromptFromPhase5(panelBrief, propsBible, forStoryboard) ==
    LET spreadNum == panelBrief.spreadNumber
        has == IsSome(propsBible)
        bible == Get(propsBible)
        Clean(text) == sanitizeChildReferences(text, forStoryboard)
        envs == IF has /\ IsSome(bible.environments)
                THEN SelectSeq(Get(bible.environments),
                               LAMBDA e : spreadNum \in e.usedInSpreads)
                ELSE << >>
        briefEnvironment == << Lit("ENVIRONMENT: ") >> \o Clean(panelBrief.environment)
        environment ==
            IF envs # << >>
            THEN LET env == envs[1]
                 IN  << Lit("ENVIRONMENT: "), env.name, Lit(" - ") >>
                     \o Clean(env.description)
                     \o << Lit(". Color palette: ") >>
                     \o (IF IsSome(env.colorPalette)
                         THEN Join(Get(env.colorPalette), Lit(", ")) ELSE << >>)
                     \o << Lit(".") >>
                     \o (IF TruthyText(env.lightSource)
                         THEN << Lit(" Lighting: ") >> \o Get(env.lightSource)
                              \o << Lit(".") >>
                         ELSE << >>)
            ELSE briefEnvironment
        supportingInSpread ==
            IF has /\ IsSome(bible.supportingCharacters)
            THEN InSpread(Get(bible.supportingCharacters), spreadNum) ELSE << >>
        objectsInSpread ==
            IF has /\ IsSome(bible.keyObjects)
            THEN InSpread(Get(bible.keyObjects), spreadNum) ELSE << >>
        objDescs ==
            [i \in 1..Len(objectsInSpread) |->
                << objectsInSpread[i].name, Lit(": ") >> \o objectsInSpread[i].description
                \o (IF TruthyText(objectsInSpread[i].stateChanges)
                    THEN << Lit(" (") >> \o Get(objectsInSpread[i].stateChanges)
                         \o << Lit(")") >>
                    ELSE << >>)]
        objects ==
            IF Len(objectsInSpread) > 0
            THEN << << Lit("OBJECTS: ") >> \o Join(objDescs, Lit("; ")) >>
            ELSE IF panelBrief.objectsInFrame # << >>
                 THEN << << Lit("OBJECTS: ") >> \o Clean(panelBrief.objectsInFrame) >>
                 ELSE << >>
        motifsInSpread ==
            IF has /\ IsSome(bible.visualMotifs)
            THEN InSpread(Get(bible.visualMotifs), spreadNum) ELSE << >>
        motifDescs ==
            [i \in 1..Len(motifsInSpread) |->
                << motifsInSpread[i].motif, Lit(" ("), motifsInSpread[i].purpose,
                   Lit(")") >>]
        styleNotes == IF has /\ TruthyText(bible.styleNotes)
                      THEN Clean(Get(bible.styleNotes)) ELSE << >>
        parts ==
            (IF forStoryboard
             THEN << << Lit("PLACEHOLDER FIGURE: ") >> \o PLACEHOLDER_INSTRUCTION >>
             ELSE << >>)
            \o << << Lit("SCENE: ") >> \o Clean(panelBrief.composition) >>
            \o << environment >>
            \o << CharacterLine(panelBrief, supportingInSpread, forStoryboard) >>
            \o objects
            \o (IF Len(motifsInSpread) > 0
                THEN << << Lit("VISUAL MOTIFS: ") >> \o Join(motifDescs, Lit("; ")) >>
                ELSE << >>)
            \o << << Lit("MOOD: ") >> \o Clean(panelBrief.emotionalDirection) >>
            \o (IF forStoryboard
                THEN << << Lit("STYLE: ") >>
                        \o (IF styleNotes # << >>
                            THEN styleNotes \o << Lit(". ") >> ELSE << >>)
                        \o STORYBOARD_STYLE_PROMPT >>
                ELSE IF styleNotes # << >>
                     THEN << << Lit("STYLE: ") >> \o styleNotes >>
                     ELSE << >>)
    IN  IF has /\ ( \/ ~IsSome(bible.environments)
                    \/ envs # << >> /\ ~IsSome(envs[1].colorPalette)
                    \/ ~IsSome(bible.supportingCharacters)
                    \/ ~IsSome(bible.keyObjects)
                    \/ ~IsSome(bible.visualMotifs) )
        THEN TypeError
        ELSE Returned(Join(parts, Lit(". \n")) \o << Lit(".") >>)

\* the inputs of the composers: a page with a prop bible; a panel brief
\* with a props bible (or none) that lacks optional data; a panel brief
\* with a character-staging text
StagingTexts == UNION { [1..n -> StagingTokens] : n \in 0..MaxTokens }

FullPropsBible ==
    CHOOSE bible \in PropsBibles :
        /\ \A field \in { "environments", "supportingCharacters", "keyObjects",
                          "visualMotifs" } :
                IsSome(bible[field]) /\ Get(bible[field]) # << >>
        /\ TruthyText(Get(bible.environments)[1].colorPalette)
        /\ IsSome(Get(bible.environments)[1].lightSource)
        /\ IsSome(bible.styleNotes)

SketchInput(page, propBible) ==
    [fn |-> "buildStoryboardPanelPromptWithProps", page |-> page, propBible |-> propBible]

BriefInput(panelBrief, propsBible, forStoryboard) ==
    [fn |-> "buildStoryboardPanelPromptFromPhase5", panelBrief |-> panelBrief,
     propsBible |-> propsBible, forStoryboard |-> forStoryboard]

ComposerInit ==
    /\ IdleStore
    /\ \/ \E page \in StoryPages, propBible \in PropBibles :
            calc = Input(SketchInput(page, propBible))
       \/ \E objects \in { << >>, << Word("a kite") >> },
             propsBible \in { None } \cup { Some(bible) : bible \in PropsBibles },
             forStoryboard \in BOOLEAN :
            calc = Input(BriefInput(Brief(<< PlainWord, Period >>, objects),
                                    propsBible, forStoryboard))
       \/ \E staging \in StagingTexts,
             propsBible \in { None, Some(FullPropsBible) },
             forStoryboard \in BOOLEAN :
            calc = Input(BriefInput(Brief(staging, << >>), propsBible, forStoryboard))

ComposeSketchPrompt ==
    /\ calc.in.fn = "buildStoryboardPanelPromptWithProps"
    /\ Apply("buildStoryboardPanelPromptWithProps",
             buildStoryboardPanelPromptWithProps(calc.in.page, calc.in.propBible))

ComposeBriefPrompt ==
    /\ calc.in.fn = "buildStoryboardPanelPromptFromPhase5"
    /\ Apply("buildStoryboardPanelPromptFromPhase5",
             buildStoryboardPanelPromptFromPhase5(calc.in.panelBrief, calc.in.propsBible,
                                                  calc.in.forStoryboard))

ComposerNext == ComposeSketchPrompt \/ ComposeBriefPrompt

ComposerSpec == ComposerInit /\ [][ComposerNext]_vars

(***************************************************************************)
(* replacePlaceholders applied to a text and a name, and applied again to  *)
(* its own result.                                                         *)
(***************************************************************************)
\* the names of the model: a plain name, the empty name, and names that
\* hold a replacement pattern or the token itself
PlaceholderNames == { "Mia", "", "$$", "$&", "$'", NamePlaceholder }

PlaceholderTexts ==
    UNION { [1..n -> { NamePlaceholder, "Hello ", "!" }] : n \in 0..MaxPieces }

PlaceholderInit ==
    /\ IdleStore
    /\ \E text \in PlaceholderTexts, name \in PlaceholderNames :
            calc = Input([text |-> text, name |-> name])

ReplaceOnce == Apply("replacePlaceholders", replacePlaceholders(calc.in.text, calc.in.name))

\* the result is passed to replacePlaceholders again, with the same name
ReplaceAgain ==
    /\ calc.op = "replacePlaceholders"
    /\ calc' = [op |-> "replacePlaceholders",
                in |-> [text |-> calc.out, name |-> calc.in.name],
                out |-> replacePlaceholders(calc.out, calc.in.name)]
    /\ UNCHANGED << storeVars, book, editor >>

PlaceholderNext == ReplaceOnce \/ ReplaceAgain

PlaceholderSpec == PlaceholderInit /\ [][PlaceholderNext]_vars

(***************************************************************************)
(* The prop bible of a story: the file behind /api/admin/prop-bible and    *)
(* the PropBibleEditor component.  The editor works on the default story,  *)
(* whose prop-bible.json is bundled with the application.                  *)
(***************************************************************************)
EditedStory == LegacyId

\* the key the editor and the requests of the model work on
ItemKey == << "k" >>

NoItems == [key \in {} |-> << >>]
Item(description) == [description |-> description, appearances |-> << >>]
Put(items, key, item) == [k \in DOMAIN items \cup { key } |-> IF k = key THEN item ELSE items[k]]
Remove(items, key) == [k \in DOMAIN items \ { key } |-> items[k]]

\* templates/adventure-story/prop-bible.json as bundled: every key defined
BundledPropBible ==
    [storyId |-> "adventure-story",
     compositions |-> None,
     props |-> Put(NoItems, ItemKey, Item("red kite")),
     environments |-> Put(NoItems, ItemKey, Item("green park"))]

\* loadPropBibleFromFile, else loadPropBible
LoadPropBible(storyId) ==
    IF IsSome(propBibleJson[storyId]) THEN Get(propBibleJson[storyId])
    ELSE BundledPropBible

\* savePropBible
savePropBible(propBible, storyId) ==
    propBibleJson' = [propBibleJson EXCEPT ![storyId] = Some(propBible)]

EditorFrame ==
    UNCHANGED << projectFile, phaseFile, storyJson, promptsJson, indexFile, calls,
                 requests, book, calc >>

\* the editor page loads the prop bible (GET) and mounts the component
OpenEditor ==
    /\ editor' = Some(LoadPropBible(EditedStory))
    /\ last' = Response("prop-bible GET", EditedStory, -1, 200)
    /\ UNCHANGED propBibleJson
    /\ EditorFrame

Descriptions == { "", "red kite" }

\* handlePropUpdate(key, "description", value) on a listed prop
handlePropUpdate(key, value) ==
    /\ IsSome(editor)
    /\ key \in DOMAIN Get(editor).props
    /\ editor' = Some([Get(editor) EXCEPT !.props[key].description = value])
    /\ UNCHANGED << propBibleJson, last >>
    /\ EditorFrame

\* handleEnvironmentUpdate(key, "description", value) on a listed environment
handleEnvironmentUpdate(key, value) ==
    /\ IsSome(editor)
    /\ key \in DOMAIN Get(editor).environments
    /\ editor' = Some([Get(editor) EXCEPT !.environments[key].description = value])
    /\ UNCHANGED << propBibleJson, last >>
    /\ EditorFrame

handleDeleteProp(key) ==
    /\ IsSome(editor)
    /\ key \in DOMAIN Get(editor).props
    /\ editor' = Some([Get(editor) EXCEPT !.props = Remove(@, key)])
    /\ UNCHANGED << propBibleJson, last >>
    /\ EditorFrame

handleDeleteEnvironment(key) ==
    /\ IsSome(editor)
    /\ key \in DOMAIN Get(editor).environments
    /\ editor' = Some([Get(editor) EXCEPT !.environments = Remove(@, key)])
    /\ UNCHANGED << propBibleJson, last >>
    /\ EditorFrame

\* .replace(/\s+/g, "_")
RECURSIVE ReplaceSpaceRuns(_, _)
ReplaceSpaceRuns(str, inRun) ==
    IF str = << >> THEN << >>
    ELSE IF ~IsSpace(Head(str))
         THEN << Head(str) >> \o ReplaceSpaceRuns(Tail(str), FALSE)
         ELSE IF inRun THEN ReplaceSpaceRuns(Tail(str), TRUE)
              ELSE << "_" >> \o ReplaceSpaceRuns(Tail(str), TRUE)

\* newItemKey.trim().toLowerCase().replace(/\s+/g, "_")
NewKey(newItemKey) ==
    LET trimmed == Trim(newItemKey)
    IN  ReplaceSpaceRuns([i \in 1..Len(trimmed) |-> ToLowerCase(trimmed[i])], FALSE)

\* what the user types into the new-item field
NewItemKeys == { << " " >>, << "k" >>, << " ", "K" >> }

handleAddProp(newItemKey) ==
    /\ IsSome(editor)
    /\ UNCHANGED << propBibleJson, last >>
    /\ EditorFrame
    /\ IF Trim(newItemKey) = << >> THEN UNCHANGED editor
       ELSE editor' = Some([Get(editor) EXCEPT
                                !.props = Put(@, NewKey(newItemKey), Item(""))])

handleAddEnvironment(newItemKey) ==
    /\ IsSome(editor)
    /\ UNCHANGED << propBibleJson, last >>
    /\ EditorFrame
    /\ IF Trim(newItemKey) = << >> THEN UNCHANGED editor
       ELSE editor' = Some([Get(editor) EXCEPT
                                !.environments = Put(@, NewKey(newItemKey), Item(""))])

\* POST /api/admin/prop-bible: the whole prop bible of the body is saved
SavePropBible(body, storyId) ==
    /\ UNCHANGED editor
    /\ EditorFrame
    /\ IF ~IsSome(body) \/ Get(body).storyId = ""
       THEN /\ last' = Response("prop-bible POST", storyId, -1, 400)
            /\ UNCHANGED propBibleJson
       ELSE /\ savePropBible(Get(body), storyId)
            /\ last' = Response("prop-bible POST", storyId, -1, 200)

\* handleSave: the editor posts its prop bible
handleSave ==
    /\ IsSome(editor)
    /\ SavePropBible(editor, EditedStory)

\* a POST whose body has no prop bible, or one without a storyId
SaveInvalid ==
    \E body \in { None, Some([BundledPropBible EXCEPT !.storyId = ""]) } :
        SavePropBible(body, EditedStory)

\* Number(key) as a property name
NumberKey(key) == IF key = << "1" >> THEN key ELSE << "N", "a", "N" >>

PatchTypes == { "", "prop", "environment", "composition", "other" }
PatchKeys == { << >>, ItemKey }
PatchData == { None } \cup { Some(Item(description)) : description \in Descriptions }
PatchActions == { "update", "delete" }

\* PATCH /api/admin/prop-bible
UpdatePropBible(storyId, type, key, data, action) ==
    LET propBible == LoadPropBible(storyId)
        compositions == IF IsSome(propBible.compositions)
                        THEN Get(propBible.compositions) ELSE NoItems
        updated ==
            IF action = "delete"
            THEN CASE type = "prop" -> [propBible EXCEPT !.props = Remove(@, key)]
                   [] type = "environment" ->
                        [propBible EXCEPT !.environments = Remove(@, key)]
                   [] OTHER ->
                        IF IsSome(propBible.compositions)
                        THEN [propBible EXCEPT !.compositions =
                                    Some(Remove(compositions, NumberKey(key)))]
                        ELSE propBible
            ELSE CASE type = "prop" -> [propBible EXCEPT !.props = Put(@, key, Get(data))]
                   [] type = "environment" ->
                        [propBible EXCEPT !.environments = Put(@, key, Get(data))]
                   [] OTHER ->
                        [propBible EXCEPT !.compositions =
                                Some(Put(compositions, NumberKey(key), Get(data)))]
    IN  /\ UNCHANGED editor
        /\ EditorFrame
        /\ IF \/ type = "" \/ key = << >>
              \/ type \notin { "prop", "environment", "composition" }
              \/ action # "delete" /\ ~IsSome(data)
           THEN /\ last' = Response("prop-bible PATCH", storyId, -1, 400)
                /\ UNCHANGED propBibleJson
           ELSE /\ savePropBible(updated, storyId)
                /\ last' = Response("prop-bible PATCH", storyId, -1, 200)

EditorInit ==
    /\ EmptyStore
    /\ storyJson = NoFiles
    /\ promptsJson = NoFiles
    /\ propBibleJson = [NoFiles EXCEPT ![EditedStory] = Some(BundledPropBible)]
    /\ calls = {}
    /\ requests = 0
    /\ last = Response("none", << >>, -1, 0)
    /\ book = BookIdle
    /\ calc = CalcIdle
    /\ editor = None

EditorNext ==
    \/ OpenEditor
    \/ \E value \in Descriptions : handlePropUpdate(ItemKey, value)
    \/ \E value \in Descriptions : handleEnvironmentUpdate(ItemKey, value)
    \/ handleDeleteProp(ItemKey)
    \/ handleDeleteEnvironment(ItemKey)
    \/ \E newItemKey \in NewItemKeys : handleAddProp(newItemKey)
    \/ \E newItemKey \in NewItemKeys : handleAddEnvironment(newItemKey)
    \/ handleSave
    \/ SaveInvalid
    \/ \E type \in PatchTypes, key \in PatchKeys, data \in PatchData,
          action \in PatchActions :
            UpdatePropBible(EditedStory, type, key, data, action)

EditorSpec == EditorInit /\ [][EditorNext]_vars

(***************************************************************************)
(* Requests that do not wait for one another: the handlers are async, so   *)
(* approve, reject, convert and further generate requests for a story are  *)
(* served while a generate call of that story awaits the provider.         *)
(***************************************************************************)
Budget ==
    /\ requests < MaxRequests
    /\ requests' = requests + 1

ConcurrentNext ==
    /\ UNCHANGED << book, calc, editor >>
    /\ \/ \E n \in PhaseNums, body \in GenerateBodies :
            Budget /\ GenerateBegin(SeedStory, n, body)
       \/ \E c \in calls, reply \in ProviderReplies :
            GenerateComplete(c, reply) /\ UNCHANGED requests
       \/ \E n \in PhaseNums, body \in PatchBodies :
            Budget /\ PatchPhase(SeedStory, n, body)
       \/ Budget /\ ConvertStory(SeedStory)

ConcurrentSpec == Init /\ [][ConcurrentNext]_vars

(***************************************************************************)
(* Properties.                                                             *)
(***************************************************************************)
Exists(s) == IsSome(projectFile[s])
Project(s) == Get(projectFile[s])
PhaseState(s, n) == Project(s).phases[n]

\* the files of the store
store == << projectFile, phaseFile, storyJson, propBibleJson, promptsJson, indexFile >>

\* the dependency phases of a phase, as the specification lists them
Dependencies(n) ==
    CASE n = 0 -> {}
      [] n = 1 -> { 0 }
      [] n = 2 -> { 0, 1 }
      [] n = 4 -> { 0, 2 }
      [] n = 5 -> { 2, 4 }

\* the successor of a phase in the sequence 0, 1, 2, 4, 5, as the
\* specification lists it
Successor(n) ==
    CASE n = 0 -> 1
      [] n = 1 -> 2
      [] n = 2 -> 4
      [] n = 4 -> 5
      [] n = 5 -> 5

RejectBodies == { b \in PatchBodies : IsSome(b) /\ Get(b).action = "reject" }
ApproveBody == Some([action |-> "approve", revisionNotes |-> None])

\* notes that are missing, empty or whitespace-only
Blank(notes) == ~IsSome(notes) \/ Trim(Get(notes)) = << >>

\* the step is a create or delete request on story s
CreateOrDelete(s) ==
    \/ \E name \in StoryNames : Slug(Trim(name)) = s /\ CreateStory(name)
    \/ DeleteStory(s)

----------------------------------------------------------------------------
\* C1: a generate request for a phase one of whose dependency phases is not
\* approved is answered 400, admits no generator call and leaves every file
\* of the store as it was; so does a convert request for a story whose
\* phase 0 or phase 2 has no output.
C1_DependencyNotReadyChangesNothing ==
    [][ /\ \A s \in StoryIds, n \in Phases, body \in GenerateBodies :
            ( /\ last'.op = "generate" /\ last'.story = s /\ last'.phase = n
              /\ Exists(s)
              /\ IsSome(body)
              /\ \E d \in Dependencies(n) : PhaseState(s, d).status # "approved"
              /\ GenerateBegin(s, n, body) )
            => ( /\ last'.code = 400
                 /\ calls' = calls
                 /\ UNCHANGED store )
        /\ \A s \in StoryIds :
            ( /\ last'.op = "convert" /\ last'.story = s
              /\ Exists(s)
              /\ \E d \in { 0, 2 } : PhaseState(s, d).output = Null
              /\ ConvertStory(s) )
            => ( /\ last'.code # 200
                 /\ UNCHANGED store )
      ]_vars

\* C2: when a generate call of phase N in {1,2,4,5} stores an output and
\* moves N to review, every dependency phase of N was approved in the
\* project the call loaded.
C2_GenerateOnlyWithApprovedDependencies ==
    [][ \A c \in calls, reply \in ProviderReplies :
            ( /\ last'.op = "provider" /\ last'.story = c.story /\ last'.phase = c.phase
              /\ IsSome(generatePhase(reply))
              /\ GenerateComplete(c, reply) )
            => \A d \in Dependencies(c.phase) :
                    c.project.phases[d].status = "approved"
      ]_vars

\* C3: when the generator of a generate call fails (the provider throws,
\* answers nothing, or answers text that is no JSON), the caller gets the
\* error (500) and the phase is in review if it had an output before and
\* pending if it had none.
C3_FailedGenerateResetsStatus ==
    [][ \A c \in calls, reply \in ProviderReplies :
            ( /\ last'.op = "provider" /\ last'.story = c.story /\ last'.phase = c.phase
              /\ ~IsSome(generatePhase(reply))
              /\ GenerateComplete(c, reply) )
            => ( /\ last' = Response("provider", c.story, c.phase, 500)
                 /\ IsSome(projectFile'[c.story])
                 /\ Get(projectFile'[c.story]).phases[c.phase].status =
                        IF PhaseState(c.story, c.phase).output # Null
                        THEN "review" ELSE "pending" )
      ]_vars

\* a generator has failed on a phase that had an output, which is back in
\* review with that output
C3_Witness ==
    /\ last.op = "provider" /\ last.code = 500
    /\ Exists(last.story)
    /\ PhaseState(last.story, last.phase).status = "review"
    /\ PhaseState(last.story, last.phase).output # Null

\* C4: over generate, approve, reject and convert requests, the output of a
\* phase in project.json and its phaseN.json file change only in the step
\* in which a generate call of that phase completes successfully; they do
\* not change when the call starts (status generating) nor when it fails.
C4_OutputChangesOnlyOnSuccess ==
    [][ \A s \in StoryIds, n \in Phases :
            ( /\ Exists(s)
              /\ \/ ~IsSome(projectFile'[s])
                 \/ Get(projectFile'[s]).phases[n].output # PhaseState(s, n).output
                 \/ phaseFile'[s][n] # phaseFile[s][n]
              /\ ~CreateOrDelete(s) )
            => \E c \in calls, reply \in ProviderReplies :
                    /\ c.story = s /\ c.phase = n
                    /\ IsSome(generatePhase(reply))
                    /\ GenerateComplete(c, reply)
      ]_vars

\* a regeneration has succeeded and replaced the output the store was
\* started with
C4_Witness ==
    /\ last.op = "provider" /\ last.code = 200
    /\ Exists(last.story)
    /\ PhaseState(last.story, last.phase).output # Null
    /\ PhaseState(last.story, last.phase).output # SeedOutput
    /\ phaseFile[last.story][last.phase] =
           Some(PhaseState(last.story, last.phase).output)
    /\ \E n \in Phases \ { last.phase } :
           PhaseState(last.story, n).output = SeedOutput

\* C5: an approve or reject request for a phase whose status is not review
\* is refused and leaves the store as it was.
C5_ApproveRejectOnlyInReview ==
    [][ \A s \in StoryIds, n \in Phases, body \in RejectBodies \cup { ApproveBody } :
            ( /\ last'.op \in { "approve", "reject" } /\ last'.story = s /\ last'.phase = n
              /\ Exists(s)
              /\ PhaseState(s, n).status # "review"
              /\ PatchPhase(s, n, body) )
            => ( /\ last'.code # 200
                 /\ UNCHANGED store )
      ]_vars

\* C6: after an accepted approve of phase N, currentPhase is the successor
\* of N for N in {0,1,2,4}, and is what it was before for N = 5.
C6_ApproveAdvancesCurrentPhase ==
    [][ \A s \in StoryIds, n \in Phases :
            ( /\ last'.op = "approve" /\ last'.story = s /\ last'.phase = n
              /\ Exists(s)
              /\ PatchPhase(s, n, ApproveBody) )
            => ( /\ IsSome(projectFile'[s])
                 /\ Get(projectFile'[s]).currentPhase =
                        IF n = 5 THEN Project(s).currentPhase ELSE Successor(n) )
      ]_vars

\* C7: an accepted reject of phase N with notes leaves the output of N as it
\* was, stores the notes as revisionNotes of N, leaves N in review, and
\* changes no other phase, nor currentPhase, nor templateReady.
C7_RejectFrame ==
    [][ \A s \in StoryIds, n \in Phases, body \in RejectBodies :
            ( /\ last'.op = "reject" /\ last'.story = s /\ last'.phase = n
              /\ Exists(s)
              /\ PatchPhase(s, n, body) )
            => ( /\ IsSome(projectFile'[s])
                 /\ LET after == Get(projectFile'[s])
                    IN  /\ after.phases[n].output = PhaseState(s, n).output
                        /\ after.phases[n].revisionNotes = Get(body).revisionNotes
                        /\ after.phases[n].status = "review"
                        /\ \A m \in Phases \ { n } :
                               after.phases[m] = PhaseState(s, m)
                        /\ after.currentPhase = Project(s).currentPhase
                        /\ after.templateReady = Project(s).templateReady )
      ]_vars

\* a phase that was in review with an output has been rejected with notes
C7_Witness ==
    /\ last.op = "reject" /\ last.code = 200
    /\ Exists(last.story)
    /\ PhaseState(last.story, last.phase).status = "review"
    /\ PhaseState(last.story, last.phase).output # Null
    /\ PhaseState(last.story, last.phase).revisionNotes = Some(<< "a" >>)
    /\ \E m \in Phases : PhaseState(last.story, m).status = "approved"

\* C8: a reject request whose notes are missing, empty or whitespace-only
\* is refused and leaves the store as it was.
C8_BlankRejectRefused ==
    [][ \A s \in StoryIds, n \in Phases, body \in RejectBodies :
            ( /\ last'.op = "reject" /\ last'.story = s /\ last'.phase = n
              /\ Exists(s)
              /\ Blank(Get(body).revisionNotes)
              /\ PatchPhase(s, n, body) )
            => ( /\ last'.code # 200
                 /\ UNCHANGED store )
      ]_vars

\* C9: the generator of the generate call that follows an accepted reject
\* of the same phase receives the (non-empty) notes that reject stored,
\* whatever notes the generate request carries.
C9_RejectNotesReachGenerator ==
    [][ \A s \in StoryIds, n \in Phases, body \in GenerateBodies :
            ( /\ last = Response("reject", s, n, 200)
              /\ Exists(s)
              /\ Truthy(PhaseState(s, n).revisionNotes)
              /\ GenerateBegin(s, n, body)
              /\ IsSome(body) )
            => \A c \in calls' \ calls :
                    c.revisionNotes = PhaseState(s, n).revisionNotes
      ]_vars

\* C10: over generate, approve, reject and convert requests, a phase whose
\* status is approved keeps that status.
C10_ApprovedIsTerminal ==
    [][ \A s \in StoryIds, n \in Phases :
            ( /\ Exists(s)
              /\ PhaseState(s, n).status = "approved"
              /\ \/ ~IsSome(projectFile'[s])
                 \/ Get(projectFile'[s]).phases[n].status # "approved" )
            => CreateOrDelete(s)
      ]_vars

\* C11: in every reachable state, for every story and phase, the status is
\* one of pending, generating, review, approved; pending implies the output
\* is null, and review or approved implies the output is not null.
C11_StatusAgreesWithOutput ==
    \A s \in StoryIds : Exists(s) =>
        \A n \in Phases :
            /\ PhaseState(s, n).status \in { "pending", "generating", "review", "approved" }
            /\ PhaseState(s, n).status = "pending" => PhaseState(s, n).output = Null
            /\ PhaseState(s, n).status \in { "review", "approved" } =>
                   PhaseState(s, n).output # Null

\* the page numbers of a page-list artifact and of a prompt-table artifact
PageNumbers(artifact) == { artifact.pages[i].page : i \in 1..Len(artifact.pages) }

\* loadStoryTemplateForStory finds both files it reads
Loadable(s) == IsSome(storyJson[s]) /\ IsSome(promptsJson[s])

\* C12: in every state where the templateReady flag of a pipeline story is
\* true, its page list, its prop bible and its prompt table all exist and
\* the runtime template store can load the story.
C12_TemplateReadyHasAllArtifacts ==
    \A s \in StoryIds :
        (Exists(s) /\ Project(s).templateReady) =>
            /\ IsSome(storyJson[s])
            /\ IsSome(propBibleJson[s])
            /\ IsSome(promptsJson[s])
            /\ Loadable(s)

\* C13: a convert request that directly follows a successful convert of the
\* same story (phase outputs unchanged in between) succeeds, leaves the
\* page-list, prop-bible and prompt-table artifacts exactly as they were,
\* and templateReady is true after each of the two runs.
C13_ConvertIdempotent ==
    [][ \A s \in StoryIds :
            ( /\ last.op = "convert" /\ last.story = s /\ last.code = 200
              /\ Exists(s)
              /\ ConvertStory(s) )
            => ( /\ last'.code = 200
                 /\ storyJson' = storyJson
                 /\ propBibleJson' = propBibleJson
                 /\ promptsJson' = promptsJson
                 /\ Project(s).templateReady
                 /\ IsSome(projectFile'[s])
                 /\ Get(projectFile'[s]).templateReady )
      ]_vars

\* convert has run twice in succession on a story with all five outputs
C13_Witness ==
    /\ requests >= 2
    /\ last.op = "convert" /\ last.code = 200
    /\ Exists(last.story)
    /\ Project(last.story).templateReady
    /\ IsSome(storyJson[last.story])
    /\ IsSome(propBibleJson[last.story])
    /\ IsSome(promptsJson[last.story])

\* C14: after a successful convert, the prompt table has an entry for every
\* page number of the page list.
C14_PromptTableCoversPageList ==
    \A s \in StoryIds :
        (last.op = "convert" /\ last.story = s /\ last.code = 200) =>
            /\ IsSome(storyJson[s])
            /\ IsSome(promptsJson[s])
            /\ PageNumbers(Get(storyJson[s])) \subseteq PageNumbers(Get(promptsJson[s]))

\* the index entries of story s
EntriesOf(s) ==
    LET stories == loadStoriesIndex(indexFile)
    IN  { i \in 1..Len(stories) : stories[i].id = s }

\* C15: in every state, every existing project has exactly one index entry
\* with its id, whose currentPhase and templateReady equal the project's;
\* a story that was deleted has no index entry.
C15_IndexInSync ==
    \A s \in StoryIds :
        /\ Exists(s) =>
              /\ Cardinality(EntriesOf(s)) = 1
              /\ \A i \in EntriesOf(s) :
                    /\ loadStoriesIndex(indexFile)[i].currentPhase = Project(s).currentPhase
                    /\ loadStoriesIndex(indexFile)[i].templateReady = Project(s).templateReady
        /\ (last.op = "delete" /\ last.story = s /\ last.code = 200) =>
              (~Exists(s) /\ EntriesOf(s) = {})

\* a phase was approved: project.json and the index entry of the story both
\* show the new currentPhase
C15_Witness ==
    /\ last.op = "approve" /\ last.code = 200
    /\ Exists(last.story)
    /\ Project(last.story).currentPhase = nextPhase(last.phase)
    /\ Project(last.story).currentPhase # 0
    /\ \E i \in EntriesOf(last.story) :
            loadStoriesIndex(indexFile)[i].currentPhase = nextPhase(last.phase)

\* the index entry of the legacy story, if any
LegacyEntries ==
    LET stories == loadStoriesIndex(indexFile)
    IN  { stories[i] : i \in EntriesOf(LegacyId) }

\* C16: after any sequence of create and delete requests the index has the
\* entry of adventure-story, with isLegacy and templateReady true, and a
\* delete request for adventure-story is refused.
C16_LegacyAlwaysPresent ==
    /\ LegacyEntries # {}
    /\ \A e \in LegacyEntries : e.isLegacy /\ e.templateReady
    /\ (last.op = "delete" /\ last.story = LegacyId) => last.code # 200

\* what the store holds of story t: its project record, phase outputs,
\* runtime artifacts and index entries
StoryState(t) ==
    << projectFile[t], phaseFile[t], storyJson[t], propBibleJson[t], promptsJson[t],
       SelectSeq(loadStoriesIndex(indexFile), LAMBDA e : e.id = t) >>

PipelineOps == { "generate", "provider", "approve", "reject", "other", "patch", "convert" }

\* C18: a generate, approve, reject or convert request addressed to story s
\* (the start of a generate call and its completion included), whether it
\* succeeds or fails, leaves the project record, phase outputs, runtime
\* artifacts and index entry of every other story as they were.
C18_StoriesIsolated ==
    [][ \A s \in StoryIds :
            (last'.story = s /\ last'.op \in PipelineOps)
            => \A t \in StoryIds \ { s } : StoryState(t)' = StoryState(t)
      ]_vars

\* a generate call of one story has stored an output while a generate call
\* of the other story awaits the provider
C18_Witness ==
    /\ last.op = "provider" /\ last.code = 200
    /\ Exists(last.story)
    /\ PhaseState(last.story, last.phase).status = "review"
    /\ \E c \in calls :
            /\ c.story # last.story
            /\ Exists(c.story)
            /\ PhaseState(c.story, c.phase).status = "generating"

\* a sequence is the beginning of another
IsPrefix(a, b) == Len(a) <= Len(b) /\ a = SubSeq(b, 1, Len(a))

\* C17: when a generate-book request names a child and a story id that has
\* no pipeline-produced template, the storyboard it works on is the legacy
\* story with the name filled in (its pages, up to the page limit), not
\* "no result".
C17_FallsBackToLegacyStory ==
    ( /\ book.pc # "idle"
      /\ book.childName # ""
      /\ book.storyId # LegacyId
      /\ ~IsSome(loadStoryTemplateForStory(book.storyId)) )
    => ( /\ IsSome(book.storyboard)
         /\ Get(book.storyboard).id = LegacyId
         /\ IsPrefix(Get(book.storyboard).pages, generateStoryboard(book.childName).pages) )

\* C19: a batch loop produces its results in page order, one per page; when
\* item k fails no later item is generated, k-1 results have been produced
\* and the response reports them as imagesGenerated = k-1 of totalImages.
C19_BatchAbortKeepsPartialResults ==
    IsSome(book.storyboard) =>
        LET pages == Get(book.storyboard).pages
        IN  /\ Len(book.produced) <= Len(pages)
            /\ \A i \in 1..Len(book.produced) :
                    book.produced[i].pageNumber = pages[i].page
            /\ book.failedAt > 0 =>
                    /\ Len(book.produced) = book.failedAt - 1
                    /\ IsSome(book.response)
                    /\ Get(book.response).imagesGenerated = Some(book.failedAt - 1)
                    /\ Get(book.response).totalImages = Some(Len(pages))

\* the panel of page p is approved and has a sketch URL that answers
UsableSketch(panels, p) ==
    /\ p \in DOMAIN panels
    /\ IsSome(panels[p])
    /\ Get(panels[p]).approved
    /\ IsSome(Get(panels[p]).sketchUrl)
    /\ Get(Get(panels[p]).sketchUrl) \in { LocalUrl, LiveUrl }

Appears(anchor, summary) ==
    \A i \in 1..Len(anchor) :
        anchor[i].lit \/ \E j \in 1..Len(summary) : summary[j] = anchor[i]

\* C21: every identity anchor of a profile (hair, eyes, skin, every
\* distinctive feature, every do_not_change entry) appears in
\* profileToPromptSummary(profile) and in profileToDescription(profile).
C21_IdentityAnchorsKept ==
    calc.op \in { "profileToPromptSummary", "profileToDescription" } =>
        \A k \in 1..Len(getIdentityAnchors(calc.in)) :
            Appears(getIdentityAnchors(calc.in)[k], calc.out)

\* C22: the prompt composers never fail on missing optional data: whatever
\* props, environments, palette, motifs, supporting characters, global style
\* or style notes are absent or empty, buildStoryboardPanelPromptWithProps
\* and buildStoryboardPanelPromptFromPhase5 return a prompt and never raise.
C22_ComposersNeverRaise ==
    calc.op \in { "buildStoryboardPanelPromptWithProps",
                  "buildStoryboardPanelPromptFromPhase5" } =>
        calc.out.ok /\ calc.out.text # << >>

\* the sentences of the sketch prompt, in order
SketchSentences(page, propBible) ==
    LET matching == IF IsSome(page.props)
                    THEN PropDescriptions(Get(page.props), Get(propBible.props))
                    ELSE << >>
        environment == IF IsSome(page.environment)
                       THEN Lookup(Get(propBible.environments), Get(page.environment))
                       ELSE None
        override == IF IsSome(propBible.compositions)
                    THEN Lookup(Get(propBible.compositions), page.page) ELSE None
    IN  << << Lit("Place the outline from the input image into this scene: ") >>
                \o page.scene >>
        \o (IF matching # << >>
            THEN << << Lit("Key objects: ") >> \o Join(matching, Lit("; ")) >>
            ELSE << >>)
        \o (IF TruthyText(environment)
            THEN << << Lit("Environment: ") >> \o Get(environment) >> ELSE << >>)
        \o << << Lit("Composition: ") >>
              \o (IF TruthyText(override) THEN Get(override)
                  ELSE defaultCompositionHints[page.composition_hint]) >>
        \o << layoutHints[page.layout] >>
        \o (IF TruthyText(propBible.globalInstructions)
            THEN << Get(propBible.globalInstructions) >> ELSE << >>)
        \o << << Lit("Style: ") >>
              \o (IF TruthyText(propBible.globalStyle) THEN Get(propBible.globalStyle)
                  ELSE STORYBOARD_STYLE_PROMPT) >>

\* the sketch prompt is its sentences joined by ". " and a closing period
SketchPromptStructure ==
    calc.op = "buildStoryboardPanelPromptWithProps" /\ calc.out.ok =>
        calc.out.text = Join(SketchSentences(calc.in.page, calc.in.propBible), Lit(". "))
                        \o << Lit(".") >>

\* the text ends with one period, not two
EndsWithOnePeriod(text) ==
    /\ Len(text) >= 2
    /\ text[Len(text)].s = "."
    /\ text[Len(text) - 1].s # "."

\* C23: the sketch prompt is the scene-placement sentence, the Key objects
\* sentence (if the page has matching prop descriptions, joined by "; "),
\* the Environment sentence (if the environment key is defined), the
\* composition phrase (the per-page override if set, else the phrase of
\* composition_hint), the layout phrase, the global instructions (if set)
\* and the style sentence (globalStyle if set, else the default), joined by
\* ". ", and it ends with exactly one period.
C23_SketchPromptShape ==
    /\ SketchPromptStructure
    /\ calc.op = "buildStoryboardPanelPromptWithProps" /\ calc.out.ok =>
            EndsWithOnePeriod(calc.out.text)

\* text holds the pieces of part next to one another
IsInfix(part, text) ==
    \E i \in 0..(Len(text) - Len(part)) :
        \A j \in 1..Len(part) : text[i + j] = part[j]

PlaceholderOnly ==
    Lit("The white outline placeholder (featureless white silhouette, NO face, NO features)")

\* C25: in the storyboard variant every sentence of the character-staging
\* text with facial vocabulary is removed from the character line, whatever
\* its position or terminator, and when nothing remains the character line
\* is exactly the placeholder-only description; the final variant keeps the
\* staging text in full.
C25_FacialSentencesRemoved ==
    calc.op = "buildStoryboardPanelPromptFromPhase5" /\ calc.out.ok =>
        LET staging == calc.in.panelBrief.charactersInFrame
            text == calc.out.text
        IN  IF calc.in.forStoryboard
            THEN /\ \A i \in 1..Len(text) : text[i] # FacialWord
                 /\ (\A i \in 1..Len(text) : text[i] \notin StagingTokens) =>
                        \A i \in 1..Len(text) :
                            text[i] = PlaceholderOnly =>
                                text[i + 1] \in { Lit("; "), Lit(". \n") }
            ELSE IsInfix(staging, text)

\* text with every {{name}} token replaced by the name, taken literally
LiteralReplacement(text, name) ==
    [i \in 1..Len(text) |-> IF text[i] = NamePlaceholder THEN name ELSE text[i]]

\* C24: replacePlaceholders(text, name) is text with every {{name}} token
\* replaced by the name taken literally, it is text itself when text holds
\* no token, and replacePlaceholders is idempotent.
C24_LiteralIdempotentReplacement ==
    calc.op = "replacePlaceholders" =>
        /\ calc.out = LiteralReplacement(calc.in.text, calc.in.name)
        /\ (\A i \in 1..Len(calc.in.text) : calc.in.text[i] # NamePlaceholder) =>
                calc.out = calc.in.text
        /\ replacePlaceholders(calc.out, calc.in.name) = calc.out

\* every key of the record has a non-empty description
FullyDefined(items) == \A key \in DOMAIN items : items[key].description # ""

\* C26: after any sequence of prop-bible edits (whole save, per-key update
\* or delete, editor add) every prop key and every environment key of the
\* stored prop bible has a non-empty description.
C26_StoredKeysFullyDefined ==
    \A storyId \in StoryIds :
        IsSome(propBibleJson[storyId]) =>
            /\ FullyDefined(Get(propBibleJson[storyId]).props)
            /\ FullyDefined(Get(propBibleJson[storyId]).environments)

\* C27: generating is transient: once every generate call on a phase has
\* returned to its caller (with success, with a generation failure or with
\* a dependency rejection) the stored status of the phase is not generating.
C27_GeneratingIsTransient ==
    \A s \in StoryIds, n \in Phases :
        (Exists(s) /\ \A c \in calls : ~(c.story = s /\ c.phase = n))
            => PhaseState(s, n).status # "generating"

\* C29: over generate, approve, reject and convert requests on a story,
\* currentPhase stays in {0, 1, 2, 4, 5} and its position in that order
\* never decreases.
C29_CurrentPhaseMovesForward ==
    [][ \A s \in StoryIds :
            ( /\ last'.op \in PipelineOps /\ last'.story = s
              /\ Exists(s) /\ IsSome(projectFile'[s]) )
            => ( /\ Get(projectFile'[s]).currentPhase \in Phases
                 /\ IndexOf(PHASE_ORDER, Get(projectFile'[s]).currentPhase)
                        >= IndexOf(PHASE_ORDER, Project(s).currentPhase) )
      ]_vars

\* C30: createStoryProject(name) leaves the phase statuses, the phase
\* outputs, currentPhase and templateReady of every project that already
\* exists unchanged, also when name yields the id of an existing project.
C30_CreateKeepsExistingProjects ==
    [][ \A name \in StoryNames, t \in StoryIds :
            ( /\ last'.op = "create"
              /\ Exists(t)
              /\ CreateStory(name) )
            => ( /\ IsSome(projectFile'[t])
                 /\ Get(projectFile'[t]).phases = Project(t).phases
                 /\ Get(projectFile'[t]).currentPhase = Project(t).currentPhase
                 /\ Get(projectFile'[t]).templateReady = Project(t).templateReady )
      ]_vars

\* C28: a generate call that completes writes only its own phase: the
\* other phases (status, output, revisionNotes), currentPhase and
\* templateReady of the story are as they were stored when the call
\* finished, so an approve, reject or convert applied while the call was in
\* flight stays in effect, whether the call succeeds or fails.
C28_CompletionWritesOwnPhase ==
    [][ \A c \in calls, reply \in ProviderReplies :
            ( /\ last'.op = "provider" /\ last'.story = c.story
              /\ last'.phase = c.phase
              /\ Exists(c.story)
              /\ GenerateComplete(c, reply) )
            => ( /\ IsSome(projectFile'[c.story])
                 /\ \A n \in Phases \ { c.phase } :
                        Get(projectFile'[c.story]).phases[n] = PhaseState(c.story, n)
                 /\ Get(projectFile'[c.story]).currentPhase
                        = Project(c.story).currentPhase
                 /\ Get(projectFile'[c.story]).templateReady
                        = Project(c.story).templateReady )
      ]_vars

====
